---------------------------- MODULE Spec2Model ----------------------------
(***************************************************************************)
(* A model of tools/log-server/log_server.py: the log line parser          *)
(* (format_unified_log), the log connection handler's line splitting, the  *)
(* screenshot connection handler and its frame reader, and the log sink    *)
(* with its rotation.                                                      *)
(*                                                                         *)
(* Text is a sequence of one-character strings; bytes are small tokens.    *)
(* Every subsystem has its own variables and its own specification; a      *)
(* specification keeps the variables of the other subsystems at their idle *)
(* value.                                                                  *)
(***************************************************************************)
EXTENDS Integers, Sequences, FiniteSets, TLC

(***************************************************************************)
(* Python's str and list primitives, with Python's 0-based indices.        *)
(***************************************************************************)

Min(a, b) == IF a <= b THEN a ELSE b

\* s[a:b] for 0 <= a: the indices are clamped to the length, never an error.
Slice(s, a, b) ==
  LET lo == Min(a, Len(s))
      hi == Min(b, Len(s))
  IN IF hi <= lo THEN << >> ELSE SubSeq(s, lo + 1, hi)

\* s[a:]
From(s, a) == Slice(s, a, Len(s))

\* s.startswith(ch) for a one-character ch
StartsWith(s, ch) == Len(s) > 0 /\ s[1] = ch

\* s.find(ch): the 0-based index of the first ch, or -1
Find(s, ch) ==
  IF \E i \in 1..Len(s) : s[i] = ch
    THEN (CHOOSE i \in 1..Len(s) : s[i] = ch /\ \A j \in 1..(i - 1) : s[j] # ch) - 1
    ELSE -1

\* the 0-based index of the first "] " at or after start, or -1
FindSep(s, start) ==
  LET At(i) == s[i] = "]" /\ s[i + 1] = " "
      Cand  == {i \in (start + 1)..(Len(s) - 1) : At(i)}
  IN IF Cand = {} THEN -1
     ELSE (CHOOSE i \in Cand : \A j \in Cand : i <= j) - 1

\* s.split('] ', 2): at most two cuts, taken from the left
SplitSep2(s) ==
  LET i1 == FindSep(s, 0)
      i2 == FindSep(s, i1 + 2)
  IN IF i1 = -1 THEN << s >>
     ELSE IF i2 = -1 THEN << Slice(s, 0, i1), From(s, i1 + 2) >>
     ELSE << Slice(s, 0, i1), Slice(s, i1 + 2, i2), From(s, i2 + 2) >>

JoinSepTailFirst(parts) == parts[2]

\* '] '.join(parts[1:])
JoinSepTail(parts) ==
  IF Len(parts) = 2 THEN parts[2]
  ELSE IF Len(parts) = 3 THEN parts[2] \o << "]", " " >> \o parts[3]
  ELSE << >>

UpperLetters ==
  << "A", "B", "C", "D", "E", "F", "G", "H", "I", "J", "K", "L", "M",
     "N", "O", "P", "Q", "R", "S", "T", "U", "V", "W", "X", "Y", "Z" >>

LowerLetters ==
  << "a", "b", "c", "d", "e", "f", "g", "h", "i", "j", "k", "l", "m",
     "n", "o", "p", "q", "r", "s", "t", "u", "v", "w", "x", "y", "z" >>

LowerChar(ch) ==
  IF \E i \in 1..26 : UpperLetters[i] = ch
    THEN LowerLetters[CHOOSE i \in 1..26 : UpperLetters[i] = ch]
    ELSE ch

UpperChar(ch) ==
  IF \E i \in 1..26 : LowerLetters[i] = ch
    THEN UpperLetters[CHOOSE i \in 1..26 : LowerLetters[i] = ch]
    ELSE ch

\* s.lower()
Lower(s) == [i \in 1..Len(s) |-> LowerChar(s[i])]

\* s.capitalize(): the first character upper case, the rest lower case
Capitalize(s) ==
  [i \in 1..Len(s) |-> IF i = 1 THEN UpperChar(s[i]) ELSE LowerChar(s[i])]

(***************************************************************************)
(* format_unified_log                                                      *)
(***************************************************************************)

\* the keys of LEVEL_COLORS
LEVEL_COLORS ==
  { << "d", "e", "b", "u", "g" >>,
    << "i", "n", "f", "o" >>,
    << "n", "o", "t", "i", "c", "e" >>,
    << "w", "a", "r", "n", "i", "n", "g" >>,
    << "e", "r", "r", "o", "r" >>,
    << "f", "a", "u", "l", "t" >> }

DefaultLevel == << "i", "n", "f", "o" >>

DefaultCategory == << "D", "e", "f", "a", "u", "l", "t" >>

ServiceName == << "V", "4", "M", "i", "n", "i", "m", "a", "l", "A", "p", "p" >>

\* strftime('%Y-%m-%d %H:%M:%S.') + milliseconds, kept as one opaque character
TsStr == << "<ts>" >>

HasStructuredPrefixNoSplitCheck(message) == StartsWith(message, "[")

\* `if message.startswith('['):` and `if len(parts) >= 2:`
HasStructuredPrefix(message) ==
  StartsWith(message, "[") /\ Len(SplitSep2(message)) >= 2

IsLevelAlways(level_str) == TRUE

\* `if level_str in LEVEL_COLORS:`
IsLevel(level_str) == level_str \in LEVEL_COLORS

TextAfterCategoryOffByOne(remaining, cat_end) ==
  IF cat_end + 1 < Len(remaining) THEN From(remaining, cat_end + 1) ELSE << >>

\* `remaining[cat_end+2:] if cat_end+2 < len(remaining) else ""`
TextAfterCategory(remaining, cat_end) ==
  IF cat_end + 2 < Len(remaining) THEN From(remaining, cat_end + 2) ELSE << >>

\* The level, category and text the function extracts from the message.
ParseMessage(message) ==
  LET parts     == SplitSep2(message)
      level_str == Lower(From(parts[1], 1))
      remaining == JoinSepTail(parts)
      cat_end   == Find(remaining, "]")
      dflt      == [level |-> DefaultLevel, category |-> DefaultCategory,
                    text |-> message]
  IN IF ~HasStructuredPrefix(message) THEN dflt
     ELSE IF IsLevel(level_str)
       THEN IF StartsWith(remaining, "[")
              THEN IF cat_end > 0
                     THEN [level |-> level_str,
                           category |-> Slice(remaining, 1, cat_end),
                           text |-> TextAfterCategory(remaining, cat_end)]
                     ELSE [dflt EXCEPT !.level = level_str]
              ELSE [dflt EXCEPT !.level = level_str, !.text = remaining]
       ELSE [level |-> DefaultLevel,
             category |-> From(parts[1], 1),
             text |-> remaining]

\* f"{ts_str} V4MinimalApp <{level.capitalize()}> [{category}] {text}"
BuildLogLine(level, category, text) ==
  TsStr \o << " " >> \o ServiceName \o << " ", "<" >> \o Capitalize(level)
        \o << ">", " ", "[" >> \o category \o << "]", " " >> \o text

\* The function's result (log_line, level), with the parsed category and text.
format_unified_log(message) ==
  LET p == ParseMessage(message)
  IN [log_line |-> BuildLogLine(p.level, p.category, p.text),
      level |-> p.level, category |-> p.category, text |-> p.text]

(***************************************************************************)
(* The parser's inputs: lines put together from at most MaxTokens pieces.  *)
(***************************************************************************)

MaxTokens == 5

Tokens ==
  { << "[", "E", "R", "R", "O", "R", "]" >>,
    << "[", "i", "n", "f", "o", "]" >>,
    << "[", "A", "b", "]" >>,
    << "[" >>, << "]" >>, << " " >>, << "x" >> }

RECURSIVE LinesOf(_)
LinesOf(n) ==
  IF n = 0 THEN { << >> }
  ELSE LET prev == LinesOf(n - 1)
       IN prev \cup {p \o t : p \in prev, t \in Tokens}

Lines == LinesOf(MaxTokens)

NoResult == [level |-> << >>, category |-> << >>, text |-> << >>,
             log_line |-> << >>]

VARIABLES
  message,    \* the line handed to format_unified_log
  formatted,  \* has format_unified_log returned
  result      \* what it returned

parseVars == << message, formatted, result >>

\* one call of format_unified_log(line)
FormatLine ==
  /\ ~formatted
  /\ formatted' = TRUE
  /\ result' = format_unified_log(message)
  /\ UNCHANGED message


(***************************************************************************)
(* LogServer.handle_client: receiving, decoding and splitting into lines.  *)
(* Bytes are named by their hexadecimal value: 61 is "a", 20 the space, 0A *)
(* the newline, C3 A9 the two bytes of U+00E9.                             *)
(***************************************************************************)

Bytes == { "61", "20", "0A", "C3", "A9" }

\* the size handed to client_socket.recv
RecvSize == 4096

MaxStream == 4

RECURSIVE StreamsOf(_)
StreamsOf(n) ==
  IF n = 0 THEN { << >> }
  ELSE LET prev == StreamsOf(n - 1)
       IN prev \cup {p \o << b >> : p \in prev, b \in Bytes}

AsciiChar(b) ==
  CASE b = "61" -> "a"
    [] b = "20" -> " "
    [] b = "0A" -> "\n"

\* data.decode('utf-8', errors='replace') of one chunk on its own: a lead
\* byte without its continuation byte, at the end of the chunk too, and a
\* continuation byte without its lead byte each become U+FFFD.
RECURSIVE DecodeReplace(_)
DecodeReplace(data) ==
  IF data = << >> THEN << >>
  ELSE IF data[1] = "C3"
    THEN IF Len(data) >= 2 /\ data[2] = "A9"
           THEN << "U+00E9" >> \o DecodeReplace(From(data, 2))
           ELSE << "U+FFFD" >> \o DecodeReplace(Tail(data))
  ELSE IF data[1] = "A9"
    THEN << "U+FFFD" >> \o DecodeReplace(Tail(data))
  ELSE << AsciiChar(data[1]) >> \o DecodeReplace(Tail(data))

\* line.strip()
RECURSIVE Strip(_)
Strip(line) ==
  IF line = << >> THEN << >>
  ELSE IF line[1] = " " THEN Strip(Tail(line))
  ELSE IF line[Len(line)] = " " THEN Strip(SubSeq(line, 1, Len(line) - 1))
  ELSE line

\* `while '\n' in buffer:` with its body: the non-empty stripped lines, in
\* order, and the buffer that is left.
RECURSIVE ProcessBuffer(_)
ProcessBuffer(buf) ==
  LET nl   == Find(buf, "\n")
      line == Strip(Slice(buf, 0, nl))
      rest == ProcessBuffer(From(buf, nl + 1))
  IN IF nl = -1 THEN [lines |-> << >>, buffer |-> buf]
     ELSE [lines |-> (IF line = << >> THEN << >> ELSE << line >>) \o rest.lines,
           buffer |-> rest.buffer]

VARIABLES
  stream,     \* the bytes the client sends on the connection
  delivered,  \* how many of them recv has returned
  buffer,     \* the handler's buffer
  lines,      \* the lines handed to format_unified_log, in order
  closed      \* the handler has seen the peer close and left its loop

splitVars == << stream, delivered, buffer, lines, closed >>

\* one turn of the handler's loop in which recv returns n bytes
RecvData ==
  /\ ~closed
  /\ \E n \in 1..Min(RecvSize, Len(stream) - delivered) :
       LET data == SubSeq(stream, delivered + 1, delivered + n)
           done == ProcessBuffer(buffer \o DecodeReplace(data))
       IN /\ delivered' = delivered + n
          /\ buffer' = done.buffer
          /\ lines' = lines \o done.lines
  /\ UNCHANGED << stream, closed >>

\* a handler that processed what is left in the buffer when it leaves its loop
LeftOverFlushed(buf) ==
  IF Strip(buf) = << >> THEN << >> ELSE << Strip(buf) >>

\* the lines taken from the buffer once the loop is left: the finally block
\* closes the socket and never looks at the buffer
LeftOver(buf) == << >>

\* recv returns b'': `if not data: break`
RecvEof ==
  /\ ~closed
  /\ delivered = Len(stream)
  /\ closed' = TRUE
  /\ lines' = lines \o LeftOver(buffer)
  /\ UNCHANGED << stream, delivered, buffer >>

\* the loop ends with bytes still on their way: recv raises (`except
\* Exception: ... break`) or running was cleared (`while self.running`)
RecvBreak ==
  /\ ~closed
  /\ closed' = TRUE
  /\ lines' = lines \o LeftOver(buffer)
  /\ UNCHANGED << stream, delivered, buffer >>

\* the lines of one contiguous read of the whole stream
OneRead(bytes) == ProcessBuffer(DecodeReplace(bytes)).lines

(***************************************************************************)
(* ScreenshotServer: run, handle_client, _recv_exact and shutdown.         *)
(*                                                                         *)
(* Every connection carries one frame.  A byte is a string: "00".."03" are *)
(* the bytes of the two length fields, the characters of the timestamp     *)
(* stand for their own (one byte) UTF-8 encoding, "FF" is a byte that is   *)
(* no UTF-8, and the payload bytes name their connection and position.     *)
(***************************************************************************)

ShotConns == { "s1", "s2" }

\* the width of a length field: struct.unpack('>Q', ...)
HeaderLen == 8

MaxPayload == 2

\* the timestamp texts a client may send
Timestamps == { << >>, << "1", ":" >>, << " ", "." >>, << "FF" >> }

\* the value of a byte: the characters have their ASCII code, and the payload
\* bytes, whose value matters nowhere, a value of their own
ByteVal(b) ==
  CASE b = "00" -> 0
    [] b = "01" -> 1
    [] b = "02" -> 2
    [] b = "03" -> 3
    [] b = "04" -> 4
    [] b = " " -> 32
    [] b = "." -> 46
    [] b = "/" -> 47
    [] b = "1" -> 49
    [] b = ":" -> 58
    [] b = "FF" -> 255
    [] OTHER -> 128

ValByte(n) ==
  CASE n = 0 -> "00"
    [] n = 1 -> "01"
    [] n = 2 -> "02"
    [] n = 3 -> "03"
    [] n = 4 -> "04"

\* struct.pack('>Q', n), the client's side of the length fields, for n < 256
Pack(n) == [i \in 1..HeaderLen |-> IF i = HeaderLen THEN ValByte(n) ELSE "00"]

\* struct.unpack('>Q', data)[0]
RECURSIVE Unpack(_)
Unpack(data) ==
  IF data = << >> THEN 0
  ELSE Unpack(SubSeq(data, 1, Len(data) - 1)) * 256 + ByteVal(data[Len(data)])

PayloadBytes ==
  [s1 |-> << "a1", "a2", "a3", "a4" >>, s2 |-> << "b1", "b2", "b3", "b4" >>]

\* the n payload bytes the client of connection c sends
Payload(c, n) == [i \in 1..n |-> PayloadBytes[c][i]]

\* the bytes of one frame on the wire
FrameBytes(ts, img) == Pack(Len(ts)) \o ts \o Pack(Len(img)) \o img

\* ts_data.decode('utf-8') raises on a byte that is no UTF-8
Decodable(ts_data) == \A i \in 1..Len(ts_data) : ts_data[i] # "FF"

SafeCharKeepsDot(ch) ==
  CASE ch = ":" -> "-"
    [] ch = " " -> "_"
    [] OTHER -> ch

\* one character of .replace(':', '-').replace(' ', '_').replace('.', '-')
SafeChar(ch) ==
  CASE ch = ":" -> "-"
    [] ch = " " -> "_"
    [] ch = "." -> "-"
    [] OTHER -> ch

\* safe_ts
SafeTs(timestamp) == [i \in 1..Len(timestamp) |-> SafeChar(timestamp[i])]

FilePrefix == << "s", "c", "r", "e", "e", "n", "s", "h", "o", "t", "_" >>

FileSuffix == << ".", "j", "p", "g" >>

\* filename = f"screenshot_{safe_ts}.jpg"
Filename(timestamp) == FilePrefix \o SafeTs(timestamp) \o FileSuffix

\* self.output_dir, as the names of its directories from the root: the default
\* of --screenshot-dir
OutputDir ==
  << << "t", "m", "p" >>,
     << "a", "p", "p", "_", "s", "c", "r", "e", "e", "n", "s", "h", "o", "t", "s" >> >>

\* the names between the "/" of a path text, in order
RECURSIVE SplitPath(_)
SplitPath(name) ==
  LET i == Find(name, "/")
  IN IF i = -1 THEN << name >>
     ELSE << Slice(name, 0, i) >> \o SplitPath(From(name, i + 1))

\* a handler whose file name starts with the client's text
FilePathUnprefixed(filename) ==
  LET given == From(filename, Len(FilePrefix))
  IN IF StartsWith(given, "/") THEN SplitPath(given) ELSE OutputDir \o SplitPath(given)

\* filepath = os.path.join(self.output_dir, filename): a second part that
\* starts with "/" replaces the first
FilePath(filename) ==
  IF StartsWith(filename, "/") THEN SplitPath(filename)
  ELSE OutputDir \o SplitPath(filename)

\* the directory path that open() walks from the root along the names: an
\* empty name and "." stay, ".." goes up, but not above the root
RECURSIVE Walk(_, _)
Walk(at, names) ==
  IF names = << >> THEN at
  ELSE LET n == Head(names)
       IN IF n = << >> \/ n = << "." >> THEN Walk(at, Tail(names))
          ELSE IF n = << ".", "." >>
            THEN Walk(IF at = << >> THEN at ELSE SubSeq(at, 1, Len(at) - 1), Tail(names))
          ELSE Walk(Append(at, n), Tail(names))

\* the place of the file that open(filepath, 'wb') creates or truncates
Resolve(filepath) == Walk(<< >>, filepath)

HasSlash(filename) == Find(filename, "/") # -1

VARIABLES
  ss_server,         \* the listening socket: "none", "listening", "failed", "closed"
  ss_running,        \* self.running
  ss_accept,         \* the accept loop of run(): "check", "accept", "exited"
  ss_shutdown,       \* where shutdown() is: "idle", "flag", "clients", "done"
  ss_clients,        \* self.clients
  screenshot_count,  \* self.screenshot_count
  ss_files,          \* the files of output_dir: name -> content
  ss_frame,          \* connection -> the frame its client sends
  ss_wire,           \* connection -> the bytes recv has not returned yet
  ss_peer,           \* connection -> the client: "absent" (it never connects),
                     \* "open", or "closed" once it has closed its end
  ss_sock,           \* connection -> the server's socket: "none", "open", "closed"
  ss_pc,             \* connection -> where its handler is
  ss_need,           \* connection -> n of the running _recv_exact
  ss_data,           \* connection -> data of the running _recv_exact
  ss_timed_out,      \* connection -> recv has timed out in the running _recv_exact
  ss_timestamp,      \* connection -> timestamp
  ss_img_data,       \* connection -> img_data
  ss_count_read,     \* connection -> the count read by `self.screenshot_count += 1`
  ss_saves           \* the frames written so far: connection, filename, content

shotVars ==
  << ss_server, ss_running, ss_accept, ss_shutdown, ss_clients, screenshot_count, ss_files,
     ss_frame, ss_wire, ss_peer, ss_sock, ss_pc, ss_need, ss_data,
     ss_timed_out, ss_timestamp, ss_img_data, ss_count_read, ss_saves >>

Frames == [ts : Timestamps, img_len : 0..MaxPayload]

WireOf(c, frame) == FrameBytes(frame.ts, Payload(c, frame.img_len))

BreakAll(c) ==
  /\ ss_pc' = [d \in ShotConns |-> "finally"]
  /\ ss_data' = [ss_data EXCEPT ![c] = << >>]
  /\ UNCHANGED << ss_need, ss_timed_out, ss_timestamp, ss_img_data >>

\* the handler leaves its loop: break, or an exception caught by
\* `except Exception`
Break(c) ==
  /\ ss_pc' = [ss_pc EXCEPT ![c] = "finally"]
  /\ ss_data' = [ss_data EXCEPT ![c] = << >>]
  /\ UNCHANGED << ss_need, ss_timed_out, ss_timestamp, ss_img_data >>

\* the handler calls _recv_exact(client_socket, n) for the field: with n = 0
\* the loop of _recv_exact does not run, b'' comes back and `if not ...: break`
\* ends the handler
EnterField(c, field, n) ==
  IF n = 0
    THEN /\ ss_pc' = [ss_pc EXCEPT ![c] = "finally"]
         /\ ss_data' = [ss_data EXCEPT ![c] = << >>]
         /\ UNCHANGED << ss_need, ss_timed_out >>
    ELSE /\ ss_pc' = [ss_pc EXCEPT ![c] = field]
         /\ ss_data' = [ss_data EXCEPT ![c] = << >>]
         /\ ss_need' = [ss_need EXCEPT ![c] = n]
         /\ ss_timed_out' = [ss_timed_out EXCEPT ![c] = FALSE]

\* the handler goes on with what _recv_exact returned for the field it read
FieldDone(c, r) ==
  IF ~r.ok \/ r.data = << >> THEN Break(c)
  ELSE CASE ss_pc[c] = "ts_len" ->
              IF Len(r.data) # HeaderLen
                THEN Break(c)
                ELSE /\ EnterField(c, "ts", Unpack(r.data))
                     /\ UNCHANGED << ss_timestamp, ss_img_data >>
         [] ss_pc[c] = "ts" ->
              IF ~Decodable(r.data)
                THEN Break(c)
                ELSE /\ EnterField(c, "img_len", HeaderLen)
                     /\ ss_timestamp' = [ss_timestamp EXCEPT ![c] = r.data]
                     /\ UNCHANGED ss_img_data
         [] ss_pc[c] = "img_len" ->
              IF Len(r.data) # HeaderLen
                THEN Break(c)
                ELSE /\ EnterField(c, "img", Unpack(r.data))
                     /\ UNCHANGED << ss_timestamp, ss_img_data >>
         [] ss_pc[c] = "img" ->
              /\ ss_pc' = [ss_pc EXCEPT ![c] = "open"]
              /\ ss_data' = [ss_data EXCEPT ![c] = << >>]
              /\ ss_img_data' = [ss_img_data EXCEPT ![c] = r.data]
              /\ UNCHANGED << ss_need, ss_timed_out, ss_timestamp >>

InRecvExact(c) == ss_pc[c] \in { "ts_len", "ts", "img_len", "img" }

EofKeepsPartial(data) == [ok |-> TRUE, data |-> data]

\* _recv_exact, `if not chunk: return None`: the data read so far is dropped
EofResult(data) == [ok |-> FALSE, data |-> << >>]

\* _recv_exact, `if not self.running: return None`
StoppedResult(data) == [ok |-> FALSE, data |-> << >>]

\* what the handler's locals and its place in the wire do not depend on
shotShared ==
  << ss_server, ss_running, ss_accept, ss_shutdown, ss_clients,
     screenshot_count, ss_files, ss_frame, ss_peer, ss_sock, ss_count_read,
     ss_saves >>

\* run(): bind and listen succeed, `self.running = True`
ScreenshotRun ==
  /\ ss_server = "none"
  /\ ss_accept = "check"
  /\ ss_server' = "listening"
  /\ ss_accept' = "start"
  /\ UNCHANGED << ss_running, ss_shutdown, ss_clients, screenshot_count,
                  ss_files, ss_frame, ss_wire, ss_peer, ss_sock, ss_pc,
                  ss_need, ss_timed_out, ss_data, ss_timestamp, ss_img_data, ss_count_read,
                  ss_saves >>

\* run(): `self.running = True`
ScreenshotStart ==
  /\ ss_accept = "start"
  /\ ss_running' = TRUE
  /\ ss_accept' = "check"
  /\ UNCHANGED << ss_server, ss_shutdown, ss_clients, screenshot_count,
                  ss_files, ss_frame, ss_wire, ss_peer, ss_sock, ss_pc,
                  ss_need, ss_timed_out, ss_data, ss_timestamp, ss_img_data, ss_count_read,
                  ss_saves >>

\* run(): bind raises OSError, the error is printed and run returns
ScreenshotBindFails ==
  /\ ss_server = "none"
  /\ ss_accept = "check"
  /\ ss_server' = "failed"
  /\ ss_accept' = "exited"
  /\ UNCHANGED << ss_running, ss_shutdown, ss_clients, screenshot_count,
                  ss_files, ss_frame, ss_wire, ss_peer, ss_sock, ss_pc,
                  ss_need, ss_timed_out, ss_data, ss_timestamp, ss_img_data, ss_count_read,
                  ss_saves >>

\* run(): `while self.running:`
ScreenshotLoopCheck ==
  /\ ss_server \in { "listening", "closed" }
  /\ ss_accept = "check"
  /\ ss_accept' = IF ss_running THEN "accept" ELSE "exited"
  /\ UNCHANGED << ss_server, ss_running, ss_shutdown, ss_clients,
                  screenshot_count, ss_files, ss_frame, ss_wire, ss_peer,
                  ss_sock, ss_pc, ss_need, ss_timed_out, ss_data, ss_timestamp, ss_img_data,
                  ss_count_read, ss_saves >>

\* run(): accept returns a connection, which is registered under the lock and
\* given its handler thread
ScreenshotAccept(c) ==
  /\ ss_accept = "accept"
  /\ ss_server = "listening"
  /\ ss_sock[c] = "none"
  /\ ss_peer[c] = "open"
  /\ ss_sock' = [ss_sock EXCEPT ![c] = "open"]
  /\ ss_clients' = ss_clients \cup { c }
  /\ ss_pc' = [ss_pc EXCEPT ![c] = "loop"]
  /\ ss_accept' = "check"
  /\ UNCHANGED << ss_server, ss_running, ss_shutdown, screenshot_count,
                  ss_files, ss_frame, ss_wire, ss_peer, ss_need, ss_timed_out, ss_data,
                  ss_timestamp, ss_img_data, ss_count_read, ss_saves >>

\* run(): accept times out, or raises on the closed listening socket
ScreenshotAcceptFails ==
  /\ ss_accept = "accept"
  /\ ss_accept' = "check"
  /\ UNCHANGED << ss_server, ss_running, ss_shutdown, ss_clients,
                  screenshot_count, ss_files, ss_frame, ss_wire, ss_peer,
                  ss_sock, ss_pc, ss_need, ss_timed_out, ss_data, ss_timestamp, ss_img_data,
                  ss_count_read, ss_saves >>

\* the client closes its end: what it has not sent yet never arrives
ScreenshotPeerClose(c) ==
  /\ ss_sock[c] # "none"
  /\ ss_peer[c] = "open"
  /\ ss_peer' = [ss_peer EXCEPT ![c] = "closed"]
  /\ UNCHANGED << ss_server, ss_running, ss_accept, ss_shutdown, ss_clients,
                  screenshot_count, ss_files, ss_frame, ss_wire, ss_sock,
                  ss_pc, ss_need, ss_timed_out, ss_data, ss_timestamp, ss_img_data,
                  ss_count_read, ss_saves >>

\* handle_client: `while self.running:` and the first _recv_exact(sock, 8)
ShotLoop(c) ==
  /\ ss_pc[c] = "loop"
  /\ IF ss_running
       THEN EnterField(c, "ts_len", HeaderLen)
       ELSE /\ ss_pc' = [ss_pc EXCEPT ![c] = "finally"]
            /\ UNCHANGED << ss_need, ss_timed_out, ss_data >>
  /\ UNCHANGED << ss_wire, ss_timestamp, ss_img_data >>
  /\ UNCHANGED shotShared

\* _recv_exact: sock.recv(n - len(data)) returns k bytes; the field is
\* complete when len(data) reaches n
ShotRecv(c) ==
  /\ InRecvExact(c)
  /\ ss_sock[c] = "open"
  /\ ss_peer[c] = "open"
  /\ \E k \in 1..Min(ss_need[c] - Len(ss_data[c]), Len(ss_wire[c])) :
       LET data == ss_data[c] \o SubSeq(ss_wire[c], 1, k)
       IN /\ ss_wire' = [ss_wire EXCEPT ![c] = From(ss_wire[c], k)]
          /\ IF Len(data) < ss_need[c]
               THEN /\ ss_data' = [ss_data EXCEPT ![c] = data]
                    /\ UNCHANGED << ss_pc, ss_need, ss_timed_out, ss_timestamp, ss_img_data >>
               ELSE FieldDone(c, [ok |-> TRUE, data |-> data])
  /\ UNCHANGED shotShared

\* _recv_exact: recv returns b'' because the peer has closed
ShotRecvEof(c) ==
  /\ InRecvExact(c)
  /\ ss_sock[c] = "open"
  /\ ss_peer[c] = "closed"
  /\ FieldDone(c, EofResult(ss_data[c]))
  /\ UNCHANGED ss_wire
  /\ UNCHANGED shotShared

\* _recv_exact: recv times out while the server runs: `continue`, with the
\* data read so far kept
ShotRecvTimeout(c) ==
  /\ InRecvExact(c)
  /\ ss_sock[c] = "open"
  /\ ss_running
  /\ ss_timed_out' = [ss_timed_out EXCEPT ![c] = TRUE]
  /\ UNCHANGED << ss_pc, ss_need, ss_data, ss_wire, ss_timestamp, ss_img_data >>
  /\ UNCHANGED shotShared

\* _recv_exact: recv times out after shutdown: `return None`
ShotRecvTimeoutStopped(c) ==
  /\ InRecvExact(c)
  /\ ss_sock[c] = "open"
  /\ ~ss_running
  /\ FieldDone(c, StoppedResult(ss_data[c]))
  /\ UNCHANGED ss_wire
  /\ UNCHANGED shotShared

\* _recv_exact: recv raises OSError on the socket shutdown() has closed; the
\* handler's `except Exception` breaks
ShotRecvError(c) ==
  /\ InRecvExact(c)
  /\ ss_sock[c] = "closed"
  /\ Break(c)
  /\ UNCHANGED ss_wire
  /\ UNCHANGED shotShared

\* f.write(img_data) at offset 0 of a file that may have been written through
\* another handle since this handler opened it
Overwrite(old, img_data) == img_data \o From(old, Len(img_data))

\* handle_client: open(filepath, 'wb') creates or truncates the file
ShotOpen(c) ==
  /\ ss_pc[c] = "open"
  /\ LET filename == Filename(ss_timestamp[c])
     IN ss_files' = [f \in DOMAIN ss_files \cup { filename } |-> << >>]
                      @@ ss_files
  /\ ss_pc' = [ss_pc EXCEPT ![c] = "write"]
  /\ UNCHANGED << ss_server, ss_running, ss_accept, ss_shutdown, ss_clients,
                  screenshot_count, ss_frame, ss_wire, ss_peer, ss_sock,
                  ss_need, ss_timed_out, ss_data, ss_timestamp, ss_img_data, ss_count_read,
                  ss_saves >>

\* handle_client: open(filepath, 'wb') raises FileNotFoundError when a
\* directory named in the file name is not there; `except Exception` breaks
ShotOpenFails(c) ==
  /\ ss_pc[c] = "open"
  /\ HasSlash(Filename(ss_timestamp[c]))
  /\ Break(c)
  /\ UNCHANGED ss_wire
  /\ UNCHANGED shotShared

\* handle_client: f.write(img_data) and the close at the end of `with`
ShotWrite(c) ==
  /\ ss_pc[c] = "write"
  /\ LET filename == Filename(ss_timestamp[c])
         content  == Overwrite(ss_files[filename], ss_img_data[c])
     IN /\ ss_files' = [ss_files EXCEPT ![filename] = content]
        /\ ss_saves' = ss_saves \cup
             { [conn |-> c, filename |-> filename, content |-> content] }
  /\ ss_pc' = [ss_pc EXCEPT ![c] = "count_read"]
  /\ UNCHANGED << ss_server, ss_running, ss_accept, ss_shutdown, ss_clients,
                  screenshot_count, ss_frame, ss_wire, ss_peer, ss_sock,
                  ss_need, ss_timed_out, ss_data, ss_timestamp, ss_img_data, ss_count_read >>

\* handle_client: `self.screenshot_count += 1` reads the count ...
ShotCountRead(c) ==
  /\ ss_pc[c] = "count_read"
  /\ ss_count_read' = [ss_count_read EXCEPT ![c] = screenshot_count]
  /\ ss_pc' = [ss_pc EXCEPT ![c] = "count_write"]
  /\ UNCHANGED << ss_server, ss_running, ss_accept, ss_shutdown, ss_clients,
                  screenshot_count, ss_files, ss_frame, ss_wire, ss_peer,
                  ss_sock, ss_need, ss_timed_out, ss_data, ss_timestamp, ss_img_data,
                  ss_saves >>

\* ... and stores the count it read plus one; the loop goes on
ShotCountWrite(c) ==
  /\ ss_pc[c] = "count_write"
  /\ screenshot_count' = ss_count_read[c] + 1
  /\ ss_pc' = [ss_pc EXCEPT ![c] = "loop"]
  /\ UNCHANGED << ss_server, ss_running, ss_accept, ss_shutdown, ss_clients,
                  ss_files, ss_frame, ss_wire, ss_peer, ss_sock, ss_need, ss_timed_out,
                  ss_data, ss_timestamp, ss_img_data, ss_count_read, ss_saves >>

\* handle_client: `finally: client_socket.close()`
ShotFinally(c) ==
  /\ ss_pc[c] = "finally"
  /\ ss_sock' = [ss_sock EXCEPT ![c] = "closed"]
  /\ ss_pc' = [ss_pc EXCEPT ![c] = "dereg"]
  /\ UNCHANGED << ss_server, ss_running, ss_accept, ss_shutdown, ss_clients,
                  screenshot_count, ss_files, ss_frame, ss_wire, ss_peer,
                  ss_need, ss_timed_out, ss_data, ss_timestamp, ss_img_data, ss_count_read,
                  ss_saves >>

\* handle_client: `with self.lock:` the connection leaves self.clients
ShotDeregister(c) ==
  /\ ss_pc[c] = "dereg"
  /\ ss_clients' = ss_clients \ { c }
  /\ ss_pc' = [ss_pc EXCEPT ![c] = "done"]
  /\ UNCHANGED << ss_server, ss_running, ss_accept, ss_shutdown,
                  screenshot_count, ss_files, ss_frame, ss_wire, ss_peer,
                  ss_sock, ss_need, ss_timed_out, ss_data, ss_timestamp, ss_img_data,
                  ss_count_read, ss_saves >>

\* shutdown(): `self.running = False`
ScreenshotShutdownFlag ==
  /\ ss_shutdown = "idle"
  /\ ss_running' = FALSE
  /\ ss_shutdown' = "flag"
  /\ UNCHANGED << ss_server, ss_accept, ss_clients, screenshot_count, ss_files,
                  ss_frame, ss_wire, ss_peer, ss_sock, ss_pc, ss_need, ss_timed_out, ss_data,
                  ss_timestamp, ss_img_data, ss_count_read, ss_saves >>

\* shutdown(): under the lock every registered socket is closed and the
\* registry cleared
ScreenshotShutdownClients ==
  /\ ss_shutdown = "flag"
  /\ ss_sock' = [c \in ShotConns |->
                   IF c \in ss_clients THEN "closed" ELSE ss_sock[c]]
  /\ ss_clients' = { }
  /\ ss_shutdown' = "clients"
  /\ UNCHANGED << ss_server, ss_running, ss_accept, screenshot_count, ss_files,
                  ss_frame, ss_wire, ss_peer, ss_pc, ss_need, ss_timed_out, ss_data,
                  ss_timestamp, ss_img_data, ss_count_read, ss_saves >>

\* shutdown(): `if self.server_socket:` the listening socket is closed
ScreenshotShutdownServer ==
  /\ ss_shutdown = "clients"
  /\ ss_server' = IF ss_server = "none" THEN "none" ELSE "closed"
  /\ ss_shutdown' = "done"
  /\ UNCHANGED << ss_running, ss_accept, ss_clients, screenshot_count,
                  ss_files, ss_frame, ss_wire, ss_peer, ss_sock, ss_pc,
                  ss_need, ss_timed_out, ss_data, ss_timestamp, ss_img_data, ss_count_read,
                  ss_saves >>

(***************************************************************************)
(* LogServer: run, handle_client, _open_log_file, _rotate_log,             *)
(* _schedule_rotation and shutdown.                                        *)
(*                                                                         *)
(* A path is a number: 0 is the configured output_file, t >= 1 the rotated *)
(* path that _make_rotated_path builds at time t.  The clock advances by   *)
(* one with every firing of the rotation timer (the timer waits at least   *)
(* 60 seconds and the rotated path has the second in it), so two opens for *)
(* a rotation never build the same path.  A file handle is named by the    *)
(* path it was opened on.  A line of a connection is named by the          *)
(* connection and its number in the order received; the text that          *)
(* `self.out_file.write(log_line + '\n')` appends reaches the file in two  *)
(* parts, so that a write that is not exclusive shows as a torn line.      *)
(***************************************************************************)

LogConns == { "l1", "l2" }

MaxLines == 2

MaxRotations == 1

\* the rotations of a behaviour where the timer is followed over several
\* ticks
MaxTicks == 2

\* the line of an earlier run, in a file it has left at the configured path
OldLog == << [conn |-> "old", k |-> 1, part |-> 1],
             [conn |-> "old", k |-> 1, part |-> 2] >>

\* self.out_file = None, self.current_log_path = None
NoFile == -1

\* the configured output_file
BasePath == 0

VARIABLES
  output_file,       \* is --output given
  rotate_minutes,    \* self.rotate_minutes
  quiet,             \* self.quiet
  console,           \* what has been printed to the terminal
  running,           \* self.running
  server_socket,     \* "none", "listening", "closed"
  ls_main,           \* where the main thread is in run()
  ls_pending,        \* the connection accept has just returned, or "none"
  clients,           \* self.clients
  lock,              \* self.lock: "free" or the thread that holds it
  out_file,          \* self.out_file: the path of the handle, or NoFile
  open_handles,      \* the handles that are not closed
  current_log_path,  \* self.current_log_path
  fs,                \* the file system: path -> link target or content
  link_failed,       \* the last update of the pointer raised OSError
  rotation_timer,    \* self.rotation_timer: "none", "pending", "fired", "cancelled"
  ls_rot,            \* where the timer thread is in _rotate_log
  now,               \* the clock
  rotations,         \* how many times _rotate_log has reopened the file
  ls_shutdown,       \* where shutdown() is
  ls_sock,           \* connection -> the server's socket: "none", "open", "closed"
  ls_peer,           \* connection -> the client: "open" or "closed"
  ls_pc,             \* connection -> where its handler is
  ls_sent,           \* connection -> how many of its lines recv has returned
  ls_buf,            \* connection -> the complete lines waiting in buffer
  ls_cur,            \* connection -> the line being processed, or 0
  ls_handle          \* connection -> the handle of the write in progress

logCfg == << output_file, rotate_minutes, quiet >>

logSrv == << running, server_socket, ls_main, ls_pending, clients >>

logSink == << out_file, open_handles, current_log_path, fs, link_failed >>

logRot == << rotation_timer, ls_rot, now, rotations >>

logConn == << ls_sock, ls_peer, ls_pc, ls_sent, ls_buf, ls_cur, ls_handle >>

logVars ==
  << logCfg, logSrv, logSink, logRot, logConn, lock, ls_shutdown, console >>

\* a message on the terminal: what it reports, and the connection and line or
\* the path it is about
Event(what, conn, n) == [what |-> what, conn |-> conn, n |-> n]

\* print(...) under `if cond:`
Printed(cond, e) == IF cond THEN console \cup { e } ELSE console

RegularFile(content) == [link |-> NoFile, content |-> content]

SymLink(target) == [link |-> target, content |-> << >>]

\* _make_rotated_path: the path with the current time in it
MakeRotatedPath == now

PathToOpenFixed == BasePath

\* `if self.rotate_minutes > 0:` rotated_path, `else:` self.output_file
PathToOpen == IF rotate_minutes > 0 THEN MakeRotatedPath ELSE BasePath

\* open(path, 'a'): the file is created when it is missing and kept otherwise
OpenAppend(files, path) ==
  IF path \in DOMAIN files THEN files
  ELSE [q \in DOMAIN files \cup { path } |->
          IF q = path THEN RegularFile(<< >>) ELSE files[q]]

\* os.remove(path)
Remove(files, path) == [q \in DOMAIN files \ { path } |-> files[q]]

\* os.symlink(target, path), the path being free
WithLink(files, path, target) ==
  [q \in DOMAIN files \cup { path } |->
     IF q = path THEN SymLink(target) ELSE files[q]]

\* a write through the handle opened on path: when the path no longer names
\* the file, the text goes to a file that no path names
WriteTo(files, path, fragment) ==
  IF path \in DOMAIN files /\ files[path].link = NoFile
    THEN [files EXCEPT ![path].content = Append(@, fragment)]
    ELSE files

\* _open_log_file up to `self.out_file = open(...)`; next is where the thread
\* goes when no pointer is kept
OpenLogFile ==
  /\ current_log_path' = PathToOpen
  /\ out_file' = PathToOpen
  /\ open_handles' = open_handles \cup { PathToOpen }
  /\ fs' = OpenAppend(fs, PathToOpen)
  /\ UNCHANGED link_failed

\* _open_log_file: `if os.path.islink(...) or os.path.exists(...):
\* os.remove(...)`.  ok says whether os.remove succeeds; when it raises, the
\* `except OSError: pass` ends the update of the pointer.
RemovePointer(ok) ==
  /\ fs' = IF BasePath \in DOMAIN fs /\ ok THEN Remove(fs, BasePath) ELSE fs
  /\ link_failed' = (BasePath \in DOMAIN fs /\ ~ok)
  /\ UNCHANGED << out_file, open_handles, current_log_path >>

\* _open_log_file: os.symlink(self.current_log_path, self.output_file); ok
\* says whether the system lets it succeed, which it never does on a path
\* that exists
MakePointer(ok) ==
  /\ fs' = IF ok /\ BasePath \notin DOMAIN fs
             THEN WithLink(fs, BasePath, current_log_path) ELSE fs
  /\ link_failed' = ~(ok /\ BasePath \notin DOMAIN fs)
  /\ UNCHANGED << out_file, open_handles, current_log_path >>

PointerFailureEndsThread(next) == "idle"

\* `except OSError: pass`: the failure is dropped and _open_log_file goes on
\* to where it goes after the update of the pointer
PointerFailure(next) == next

(* ---- run(): startup and the accept loop, on the main thread ---- *)

\* shutdown() runs in the signal handler, on the main thread: once it has
\* begun, run() does not go on
MainRuns == ls_shutdown = "idle"

\* run(): bind and listen succeed, `self.running = True`
LogRun ==
  /\ MainRuns
  /\ ls_main = "init"
  /\ server_socket' = "listening"
  /\ running' = TRUE
  /\ ls_main' = "open"
  /\ UNCHANGED << ls_pending, clients >>
  /\ UNCHANGED << logCfg, logSink, logRot, logConn, lock, ls_shutdown >>
  /\ UNCHANGED console

\* run(): bind raises OSError: the error is printed and sys.exit(1) ends the
\* process
LogBindFails ==
  /\ MainRuns
  /\ ls_main = "init"
  /\ server_socket' = "closed"
  /\ ls_main' = "exited"
  /\ UNCHANGED << running, ls_pending, clients >>
  /\ UNCHANGED << logCfg, logSink, logRot, logConn, lock, ls_shutdown >>
  /\ console' = Printed(TRUE, Event("bind_error", "-", 0))

\* run(): self._open_log_file(), up to the open
LogOpenFirst ==
  /\ MainRuns
  /\ ls_main = "open"
  /\ IF output_file
       THEN /\ OpenLogFile
            /\ ls_main' = IF rotate_minutes > 0 THEN "unlink" ELSE "schedule"
       ELSE /\ UNCHANGED logSink
            /\ ls_main' = "schedule"
  /\ UNCHANGED << running, server_socket, ls_pending, clients >>
  /\ UNCHANGED << logCfg, logRot, logConn, lock, ls_shutdown >>
  /\ console' = Printed(output_file /\ rotate_minutes = 0,
                        Event("writing", "-", BasePath))

\* run(): self._open_log_file(), the removal of what is at output_file
LogUnlinkFirst ==
  /\ MainRuns
  /\ ls_main = "unlink"
  /\ \E ok \in BOOLEAN :
       /\ RemovePointer(ok)
       /\ ls_main' = IF BasePath \in DOMAIN fs /\ ~ok
                      THEN PointerFailure("schedule") ELSE "symlink"
       /\ console' = Printed(BasePath \in DOMAIN fs /\ ~ok, Event("writing", "-", current_log_path))
  /\ UNCHANGED << running, server_socket, ls_pending, clients >>
  /\ UNCHANGED << logCfg, logRot, logConn, lock, ls_shutdown >>

\* run(): self._open_log_file(), the new pointer
LogSymlinkFirst ==
  /\ MainRuns
  /\ ls_main = "symlink"
  /\ \E ok \in BOOLEAN :
       /\ MakePointer(ok)
       /\ ls_main' = IF ok /\ BasePath \notin DOMAIN fs
                      THEN "schedule" ELSE PointerFailure("schedule")
  /\ console' = Printed(TRUE, Event("writing", "-", current_log_path))
  /\ UNCHANGED << running, server_socket, ls_pending, clients >>
  /\ UNCHANGED << logCfg, logRot, logConn, lock, ls_shutdown >>

ScheduleRotationAlways ==
  rotation_timer' = IF running THEN "pending" ELSE rotation_timer

\* _schedule_rotation: `if self.rotate_minutes > 0 and self.running:` a timer
\* is made and started
ScheduleRotation ==
  rotation_timer' =
    IF rotate_minutes > 0 /\ running THEN "pending" ELSE rotation_timer

\* run(): self._schedule_rotation()
LogScheduleFirst ==
  /\ MainRuns
  /\ ls_main = "schedule"
  /\ ScheduleRotation
  /\ ls_main' = "check"
  /\ UNCHANGED << running, server_socket, ls_pending, clients >>
  /\ UNCHANGED << ls_rot, now, rotations >>
  /\ UNCHANGED << logCfg, logSink, logConn, lock, ls_shutdown >>
  /\ UNCHANGED console

\* run(): `while self.running:`
LogLoopCheck ==
  /\ MainRuns
  /\ ls_main = "check"
  /\ ls_main' = IF running THEN "accept" ELSE "exited"
  /\ UNCHANGED << running, server_socket, ls_pending, clients >>
  /\ UNCHANGED << logCfg, logSink, logRot, logConn, lock, ls_shutdown >>
  /\ UNCHANGED console

\* the connections are named in the order in which accept returns them
Earlier(c) == IF c = "l2" THEN { "l1" } ELSE { }

\* run(): accept returns the connection c; client_socket.settimeout(1.0)
LogAccept(c) ==
  /\ MainRuns
  /\ ls_main = "accept"
  /\ server_socket = "listening"
  /\ ls_sock[c] = "none"
  /\ \A e \in Earlier(c) : ls_sock[e] # "none"
  /\ ls_sock' = [ls_sock EXCEPT ![c] = "open"]
  /\ ls_pending' = c
  /\ ls_main' = "lock"
  /\ UNCHANGED << running, server_socket, clients >>
  /\ UNCHANGED << ls_peer, ls_pc, ls_sent, ls_buf, ls_cur, ls_handle >>
  /\ UNCHANGED << logCfg, logSink, logRot, lock, ls_shutdown >>
  /\ UNCHANGED console

\* run(): accept times out: `continue`
LogAcceptTimeout ==
  /\ MainRuns
  /\ ls_main = "accept"
  /\ ls_main' = "check"
  /\ UNCHANGED << running, server_socket, ls_pending, clients >>
  /\ UNCHANGED << logCfg, logSink, logRot, logConn, lock, ls_shutdown >>
  /\ UNCHANGED console

LockFreeAlways == TRUE

\* threading.Lock: acquire goes on only when no thread holds the lock
LockFree == lock = "free"

\* run(): `with self.lock:` is entered
LogRegisterLock ==
  /\ MainRuns
  /\ ls_main = "lock"
  /\ LockFree
  /\ lock' = "main"
  /\ ls_main' = "append"
  /\ UNCHANGED << running, server_socket, ls_pending, clients >>
  /\ UNCHANGED << logCfg, logSink, logRot, logConn, ls_shutdown >>
  /\ UNCHANGED console

\* run(): self.clients.append(client_socket), the lock is released and the
\* handler thread started
LogRegister ==
  /\ MainRuns
  /\ ls_main = "append"
  /\ clients' = clients \cup { ls_pending }
  /\ lock' = "free"
  /\ ls_pc' = [ls_pc EXCEPT ![ls_pending] = "loop"]
  /\ ls_pending' = "none"
  /\ ls_main' = "check"
  /\ UNCHANGED << running, server_socket >>
  /\ UNCHANGED << ls_sock, ls_peer, ls_sent, ls_buf, ls_cur, ls_handle >>
  /\ UNCHANGED << logCfg, logSink, logRot, ls_shutdown >>
  /\ console' = Printed(~quiet, Event("connected", ls_pending, 0))

(* ---- handle_client, one thread for each connection ---- *)

\* sys.exit ends the process and its daemon threads with it
ProcessLives == ls_shutdown # "exited" /\ ls_main # "exited"

\* the client closes its end
LogPeerClose(c) ==
  /\ ls_sock[c] = "open"
  /\ ls_peer[c] = "open"
  /\ ls_peer' = [ls_peer EXCEPT ![c] = "closed"]
  /\ UNCHANGED << ls_sock, ls_pc, ls_sent, ls_buf, ls_cur, ls_handle >>
  /\ UNCHANGED << logCfg, logSrv, logSink, logRot, lock, ls_shutdown >>
  /\ UNCHANGED console

StillHeld(t) == lock

\* the with statement ends: the lock is released by the thread that holds it
Released(t) == IF lock = t THEN "free" ELSE lock

\* `except Exception: ... break` and on to the finally clause: what was left
\* in buffer is dropped
LogBreak(c) ==
  /\ ls_pc' = [ls_pc EXCEPT ![c] = "finally"]
  /\ ls_buf' = [ls_buf EXCEPT ![c] = << >>]
  /\ ls_cur' = [ls_cur EXCEPT ![c] = 0]

\* `while self.running:`
LogLoop(c) ==
  /\ ProcessLives
  /\ ls_pc[c] = "loop"
  /\ ls_pc' = [ls_pc EXCEPT ![c] = IF running THEN "recv" ELSE "finally"]
  /\ UNCHANGED << ls_sock, ls_peer, ls_sent, ls_buf, ls_cur, ls_handle >>
  /\ UNCHANGED << logCfg, logSrv, logSink, logRot, lock, ls_shutdown >>
  /\ UNCHANGED console

RECURSIVE SumOver(_, _)
SumOver(f, S) ==
  IF S = { } THEN 0
  ELSE LET x == CHOOSE y \in S : TRUE IN f[x] + SumOver(f, S \ { x })

\* the lines the clients have sent so far, over all the connections
LinesSent == SumOver(ls_sent, LogConns)

\* recv returns data that completes the next j lines of the connection; the
\* lines are those that are not empty once stripped, named by their number
LogRecvLines(c, j) ==
  /\ ProcessLives
  /\ ls_pc[c] = "recv"
  /\ ls_sock[c] = "open"
  /\ ls_peer[c] = "open"
  /\ LinesSent + j <= MaxLines
  /\ ls_buf' = [ls_buf EXCEPT ![c] = [i \in 1..j |-> ls_sent[c] + i]]
  /\ ls_sent' = [ls_sent EXCEPT ![c] = @ + j]
  /\ ls_pc' = [ls_pc EXCEPT ![c] = "line"]
  /\ UNCHANGED << ls_sock, ls_peer, ls_cur, ls_handle >>
  /\ UNCHANGED << logCfg, logSrv, logSink, logRot, lock, ls_shutdown >>
  /\ UNCHANGED console

\* recv times out, or returns data that completes no line: back to the
\* `while self.running:`
LogRecvTimeout(c) ==
  /\ ProcessLives
  /\ ls_pc[c] = "recv"
  /\ ls_sock[c] = "open"
  /\ ls_peer[c] = "open"
  /\ ls_pc' = [ls_pc EXCEPT ![c] = "loop"]
  /\ UNCHANGED << ls_sock, ls_peer, ls_sent, ls_buf, ls_cur, ls_handle >>
  /\ UNCHANGED << logCfg, logSrv, logSink, logRot, lock, ls_shutdown >>
  /\ UNCHANGED console

\* recv returns b'': `if not data: break`
LogRecvEof(c) ==
  /\ ProcessLives
  /\ ls_pc[c] = "recv"
  /\ ls_sock[c] = "open"
  /\ ls_peer[c] = "closed"
  /\ LogBreak(c)
  /\ UNCHANGED << ls_sock, ls_peer, ls_sent, ls_handle >>
  /\ UNCHANGED << logCfg, logSrv, logSink, logRot, lock, ls_shutdown >>
  /\ UNCHANGED console

\* recv on the socket that shutdown() has closed raises OSError
LogRecvError(c) ==
  /\ ProcessLives
  /\ ls_pc[c] = "recv"
  /\ ls_sock[c] = "closed"
  /\ LogBreak(c)
  /\ UNCHANGED << ls_sock, ls_peer, ls_sent, ls_handle >>
  /\ UNCHANGED << logCfg, logSrv, logSink, logRot, lock, ls_shutdown >>
  /\ console' = Printed(running /\ ~quiet, Event("error", c, 0))

SplitLineFromEnd(buf) ==
  [line |-> buf[Len(buf)], buffer |-> SubSeq(buf, 1, Len(buf) - 1)]

\* `line, buffer = buffer.split('\n', 1)`
SplitLine(buf) == [line |-> Head(buf), buffer |-> Tail(buf)]

HasSinkAlways == TRUE

\* `if self.out_file:`
HasSink == out_file # NoFile

\* `while '\n' in buffer:` the next line is taken and formatted, and
\* `if self.out_file:` decides whether it is written
LogTakeLine(c) ==
  /\ ProcessLives
  /\ ls_pc[c] = "line"
  /\ IF ls_buf[c] = << >>
       THEN /\ ls_pc' = [ls_pc EXCEPT ![c] = "loop"]
            /\ UNCHANGED << ls_buf, ls_cur >>
       ELSE /\ ls_buf' = [ls_buf EXCEPT ![c] = SplitLine(ls_buf[c]).buffer]
            /\ IF HasSink
                 THEN /\ ls_cur' = [ls_cur EXCEPT ![c] = SplitLine(ls_buf[c]).line]
                      /\ ls_pc' = [ls_pc EXCEPT ![c] = "lock"]
                 ELSE /\ UNCHANGED ls_cur
                      /\ ls_pc' = [ls_pc EXCEPT ![c] = "line"]
  /\ UNCHANGED << ls_sock, ls_peer, ls_sent, ls_handle >>
  /\ UNCHANGED << logCfg, logSrv, logSink, logRot, lock, ls_shutdown >>
  /\ console' = Printed(ls_buf[c] # << >> /\ ~HasSink /\ ~quiet,
                        Event("line", c, SplitLine(ls_buf[c]).line))

\* `with self.lock:` is entered
LogWriteLock(c) ==
  /\ ProcessLives
  /\ ls_pc[c] = "lock"
  /\ LockFree
  /\ lock' = c
  /\ ls_pc' = [ls_pc EXCEPT ![c] = "write"]
  /\ UNCHANGED << ls_sock, ls_peer, ls_sent, ls_buf, ls_cur, ls_handle >>
  /\ UNCHANGED << logCfg, logSrv, logSink, logRot, ls_shutdown >>
  /\ UNCHANGED console

\* `self.out_file.write(log_line + '\n')`: the first part of the text reaches
\* the file; on a closed file write raises ValueError
LogWriteBegin(c) ==
  /\ ProcessLives
  /\ ls_pc[c] = "write"
  /\ IF out_file \in open_handles
       THEN /\ fs' = WriteTo(fs, out_file,
                             [conn |-> c, k |-> ls_cur[c], part |-> 1])
            /\ ls_handle' = [ls_handle EXCEPT ![c] = out_file]
            /\ ls_pc' = [ls_pc EXCEPT ![c] = "write2"]
            /\ UNCHANGED << ls_buf, ls_cur, lock >>
       ELSE /\ LogBreak(c)
            /\ lock' = Released(c)
            /\ UNCHANGED << fs, ls_handle >>
  /\ UNCHANGED << out_file, open_handles, current_log_path, link_failed >>
  /\ UNCHANGED << ls_sock, ls_peer, ls_sent >>
  /\ UNCHANGED << logCfg, logSrv, logRot, ls_shutdown >>
  /\ console' = Printed(out_file \notin open_handles /\ running /\ ~quiet,
                        Event("error", c, 0))

\* `self.out_file.write(log_line + '\n')`: the rest of the text reaches the
\* file, unless the file has been closed meanwhile
LogWriteEnd(c) ==
  /\ ProcessLives
  /\ ls_pc[c] = "write2"
  /\ IF ls_handle[c] \in open_handles
       THEN /\ fs' = WriteTo(fs, ls_handle[c],
                             [conn |-> c, k |-> ls_cur[c], part |-> 2])
            /\ ls_pc' = [ls_pc EXCEPT ![c] = "flush"]
            /\ UNCHANGED << ls_buf, ls_cur, lock >>
       ELSE /\ LogBreak(c)
            /\ lock' = Released(c)
            /\ UNCHANGED fs
  /\ UNCHANGED << out_file, open_handles, current_log_path, link_failed >>
  /\ UNCHANGED << ls_sock, ls_peer, ls_sent, ls_handle >>
  /\ UNCHANGED << logCfg, logSrv, logRot, ls_shutdown >>
  /\ console' = Printed(ls_handle[c] \notin open_handles /\ running /\ ~quiet,
                        Event("error", c, 0))

\* `self.out_file.flush()`, which raises ValueError on a closed file, and the
\* end of the with statement
LogFlush(c) ==
  /\ ProcessLives
  /\ ls_pc[c] = "flush"
  /\ lock' = Released(c)
  /\ IF out_file \in open_handles
       THEN /\ ls_cur' = [ls_cur EXCEPT ![c] = 0]
            /\ ls_pc' = [ls_pc EXCEPT ![c] = "line"]
            /\ UNCHANGED ls_buf
       ELSE LogBreak(c)
  /\ UNCHANGED << ls_sock, ls_peer, ls_sent, ls_handle >>
  /\ UNCHANGED << logCfg, logSrv, logSink, logRot, ls_shutdown >>
  /\ console' = IF out_file \in open_handles
                  THEN Printed(~quiet, Event("line", c, ls_cur[c]))
                  ELSE Printed(running /\ ~quiet, Event("error", c, 0))

\* finally: client_socket.close()
LogFinally(c) ==
  /\ ProcessLives
  /\ ls_pc[c] = "finally"
  /\ ls_sock' = [ls_sock EXCEPT ![c] = "closed"]
  /\ ls_pc' = [ls_pc EXCEPT ![c] = "dereg"]
  /\ UNCHANGED << ls_peer, ls_sent, ls_buf, ls_cur, ls_handle >>
  /\ UNCHANGED << logCfg, logSrv, logSink, logRot, lock, ls_shutdown >>
  /\ UNCHANGED console

RemainingNone(c) == { }

\* `if client_socket in self.clients: self.clients.remove(client_socket)`
Remaining(c) == clients \ { c }

\* finally: `with self.lock:` the socket is taken out of self.clients
LogDeregister(c) ==
  /\ ProcessLives
  /\ ls_pc[c] = "dereg"
  /\ LockFree
  /\ clients' = Remaining(c)
  /\ ls_pc' = [ls_pc EXCEPT ![c] = "done"]
  /\ UNCHANGED << running, server_socket, ls_main, ls_pending >>
  /\ UNCHANGED << ls_sock, ls_peer, ls_sent, ls_buf, ls_cur, ls_handle >>
  /\ UNCHANGED << logCfg, logSink, logRot, lock, ls_shutdown >>
  /\ console' = Printed(~quiet, Event("disconnected", c, 0))

(* ---- _rotate_log, on the thread of the timer ---- *)

\* the timer started by _schedule_rotation expires and its thread calls
\* _rotate_log; limit bounds the rotations of a behaviour
TimerFires(limit) ==
  /\ ProcessLives
  /\ rotation_timer = "pending"
  /\ rotations < limit
  /\ rotation_timer' = "fired"
  /\ now' = now + 1
  /\ ls_rot' = "check"
  /\ UNCHANGED rotations
  /\ UNCHANGED << logCfg, logSrv, logSink, logConn, lock, ls_shutdown >>
  /\ UNCHANGED console

LogTimerFires == TimerFires(MaxRotations)

RotationSkippedAlways == TRUE

\* `if not self.running or not self.output_file:`
RotationSkipped == ~running \/ ~output_file

\* `if not self.running or not self.output_file: return`
LogRotateCheck ==
  /\ ProcessLives
  /\ ls_rot = "check"
  /\ ls_rot' = IF RotationSkipped THEN "idle" ELSE "lock"
  /\ UNCHANGED << rotation_timer, now, rotations >>
  /\ UNCHANGED << logCfg, logSrv, logSink, logConn, lock, ls_shutdown >>
  /\ UNCHANGED console

\* `with self.lock:` is entered
LogRotateLock ==
  /\ ProcessLives
  /\ ls_rot = "lock"
  /\ LockFree
  /\ lock' = "rotate"
  /\ ls_rot' = "close"
  /\ UNCHANGED << rotation_timer, now, rotations >>
  /\ UNCHANGED << logCfg, logSrv, logSink, logConn, ls_shutdown >>
  /\ UNCHANGED console

\* `if self.out_file: self.out_file.close()`
LogRotateClose ==
  /\ ProcessLives
  /\ ls_rot = "close"
  /\ open_handles' = IF out_file # NoFile THEN open_handles \ { out_file }
                     ELSE open_handles
  /\ ls_rot' = "open"
  /\ UNCHANGED << out_file, current_log_path, fs, link_failed >>
  /\ UNCHANGED << rotation_timer, now, rotations >>
  /\ UNCHANGED << logCfg, logSrv, logConn, lock, ls_shutdown >>
  /\ UNCHANGED console

\* self._open_log_file(), up to the open
LogRotateOpen ==
  /\ ProcessLives
  /\ ls_rot = "open"
  /\ OpenLogFile
  /\ rotations' = rotations + 1
  /\ ls_rot' = IF rotate_minutes > 0 THEN "unlink" ELSE "release"
  /\ UNCHANGED << rotation_timer, now >>
  /\ UNCHANGED << logCfg, logSrv, logConn, lock, ls_shutdown >>
  /\ console' = Printed(rotate_minutes = 0, Event("writing", "-", BasePath))

\* self._open_log_file(), the removal of what is at output_file
LogRotateUnlink ==
  /\ ProcessLives
  /\ ls_rot = "unlink"
  /\ \E ok \in BOOLEAN :
       /\ RemovePointer(ok)
       /\ ls_rot' = IF BasePath \in DOMAIN fs /\ ~ok
                     THEN PointerFailure("release") ELSE "symlink"
       /\ console' = Printed(BasePath \in DOMAIN fs /\ ~ok, Event("writing", "-", current_log_path))
  /\ UNCHANGED << rotation_timer, now, rotations >>
  /\ UNCHANGED << logCfg, logSrv, logConn, lock, ls_shutdown >>

\* self._open_log_file(), the new pointer
LogRotateSymlink ==
  /\ ProcessLives
  /\ ls_rot = "symlink"
  /\ \E ok \in BOOLEAN :
       /\ MakePointer(ok)
       /\ ls_rot' = IF ok /\ BasePath \notin DOMAIN fs
                     THEN "release" ELSE PointerFailure("release")
  /\ console' = Printed(TRUE, Event("writing", "-", current_log_path))
  /\ UNCHANGED << rotation_timer, now, rotations >>
  /\ UNCHANGED << logCfg, logSrv, logConn, lock, ls_shutdown >>

\* the with statement of _rotate_log ends
LogRotateRelease ==
  /\ ProcessLives
  /\ ls_rot = "release"
  /\ lock' = Released("rotate")
  /\ ls_rot' = "schedule"
  /\ UNCHANGED << rotation_timer, now, rotations >>
  /\ UNCHANGED << logCfg, logSrv, logSink, logConn, ls_shutdown >>
  /\ console' = Printed(~quiet, Event("rotated", "-", current_log_path))

\* self._schedule_rotation()
LogRotateSchedule ==
  /\ ProcessLives
  /\ ls_rot = "schedule"
  /\ ScheduleRotation
  /\ ls_rot' = "idle"
  /\ UNCHANGED << now, rotations >>
  /\ UNCHANGED << logCfg, logSrv, logSink, logConn, lock, ls_shutdown >>
  /\ UNCHANGED console

(* ---- shutdown(), in the signal handler on the main thread ---- *)

\* `self.running = False`
LogShutdownFlag ==
  /\ ls_main # "exited"
  /\ ls_shutdown = "idle"
  /\ running' = FALSE
  /\ ls_shutdown' = "cancel"
  /\ UNCHANGED << server_socket, ls_main, ls_pending, clients >>
  /\ UNCHANGED << logCfg, logSink, logRot, logConn, lock >>
  /\ console' = Printed(TRUE, Event("shutting_down", "-", 0))

\* `if self.rotation_timer: self.rotation_timer.cancel()`: a timer that has
\* not fired never will
LogShutdownCancel ==
  /\ ls_shutdown = "cancel"
  /\ rotation_timer' =
       IF rotation_timer = "pending" THEN "cancelled" ELSE rotation_timer
  /\ ls_shutdown' = "clients"
  /\ UNCHANGED << ls_rot, now, rotations >>
  /\ UNCHANGED << logCfg, logSrv, logSink, logConn, lock >>
  /\ UNCHANGED console

\* `with self.lock:` every socket of self.clients is closed and the list
\* cleared
LogShutdownClients ==
  /\ ls_shutdown = "clients"
  /\ LockFree
  /\ ls_sock' = [c \in LogConns |->
                   IF c \in clients THEN "closed" ELSE ls_sock[c]]
  /\ clients' = { }
  /\ ls_shutdown' = "server"
  /\ UNCHANGED << running, server_socket, ls_main, ls_pending >>
  /\ UNCHANGED << ls_peer, ls_pc, ls_sent, ls_buf, ls_cur, ls_handle >>
  /\ UNCHANGED << logCfg, logSink, logRot, lock >>
  /\ UNCHANGED console

\* `if self.server_socket: self.server_socket.close()`
LogShutdownServer ==
  /\ ls_shutdown = "server"
  /\ server_socket' = IF server_socket = "none" THEN "none" ELSE "closed"
  /\ ls_shutdown' = "file"
  /\ UNCHANGED << running, ls_main, ls_pending, clients >>
  /\ UNCHANGED << logCfg, logSink, logRot, logConn, lock >>
  /\ UNCHANGED console

\* `if self.out_file: self.out_file.close()`, outside the lock; shutdown()
\* returns
LogShutdownFile ==
  /\ ls_shutdown = "file"
  /\ open_handles' = IF out_file # NoFile THEN open_handles \ { out_file }
                     ELSE open_handles
  /\ ls_shutdown' = "done"
  /\ UNCHANGED << out_file, current_log_path, fs, link_failed >>
  /\ UNCHANGED << logCfg, logSrv, logRot, logConn, lock >>
  /\ UNCHANGED console

\* all the variables
vars == << parseVars, splitVars, shotVars, logVars >>

\* signal_handler: after log_server.shutdown() and
\* screenshot_server.shutdown(), sys.exit(0) ends the process
SignalExit ==
  /\ ls_shutdown = "done"
  /\ ls_shutdown' = "exited"
  /\ UNCHANGED << logCfg, logSrv, logSink, logRot, logConn, lock >>
  /\ UNCHANGED console

(***************************************************************************)
(* Claims about format_unified_log, checked under SpecParse.               *)
(***************************************************************************)

NoSeparator(s) == ~\E i \in 1..(Len(s) - 1) : s[i] = "]" /\ s[i + 1] = " "

\* C6: for every input line, also with unmatched, empty or nested brackets,
\* format_unified_log returns a level that is one of the six known levels,
\* together with a category and a message that are texts.
C6_LevelAlwaysValid ==
  formatted =>
    /\ result.level \in LEVEL_COLORS
    /\ \A i \in 1..Len(result.category) : result.category[i] \in STRING
    /\ \A i \in 1..Len(result.text) : result.text[i] \in STRING

\* an unmatched opening bracket has been formatted
C6_Witness ==
  /\ formatted
  /\ Len(message) >= 2
  /\ StartsWith(message, "[")
  /\ Find(message, "]") = -1

\* C7: a line "[L] [C] M" with L a known level name in any letter case, C
\* without "]" and M not empty parses to level = lowercase(L), category = C,
\* message = M and is rendered "<ts> V4MinimalApp <Level> [C] M", the level
\* with an initial capital.
C7_StructuredLineParsed ==
  formatted =>
    \A i \in 2..Len(message) : \A j \in (i + 3)..Len(message) :
      LET L == SubSeq(message, 2, i - 1)
          C == SubSeq(message, i + 3, j - 1)
          M == SubSeq(message, j + 2, Len(message))
      IN ( /\ message[1] = "["
           /\ Lower(L) \in LEVEL_COLORS
           /\ SubSeq(message, i, i + 2) = << "]", " ", "[" >>
           /\ \A k \in 1..Len(C) : C[k] # "]"
           /\ j + 1 <= Len(message)
           /\ message[j] = "]"
           /\ message[j + 1] = " "
           /\ M # << >> )
         => /\ result.level = Lower(L)
            /\ result.category = C
            /\ result.text = M
            /\ result.log_line =
                 TsStr \o << " " >> \o ServiceName \o << " ", "<" >>
                   \o << UpperChar(Lower(L)[1]) >> \o Tail(Lower(L))
                   \o << ">", " ", "[" >> \o C \o << "]", " " >> \o M

\* "[ERROR] [Ab] x" has been formatted
C7_Witness ==
  /\ formatted
  /\ message = << "[", "E", "R", "R", "O", "R", "]", " ", "[", "A", "b", "]",
                  " ", "x" >>
  /\ result.level = << "e", "r", "r", "o", "r" >>

\* C8: a line in which no structured prefix is recognized (it does not start
\* with "[", or it does and holds no "] ") parses to level = info,
\* category = Default and message = the whole line.
C8_UnstructuredLineDefaults ==
  (formatted /\ (~StartsWith(message, "[") \/ NoSeparator(message))) =>
    /\ result.level = DefaultLevel
    /\ result.category = DefaultCategory
    /\ result.text = message

\* a line that starts with "[" and holds no "] " has been formatted
C8_Witness ==
  /\ formatted
  /\ Len(message) >= 2
  /\ StartsWith(message, "[")
  /\ NoSeparator(message)

(***************************************************************************)
(* Claims about the line splitting, checked under SpecSplit.               *)
(***************************************************************************)

\* C3: for every byte stream and every way of cutting it into recv chunks,
\* also inside a multi-byte UTF-8 character, the non-empty lines the handler
\* has processed once the whole stream is delivered are those of one
\* contiguous read of the same bytes.
C3_ChunkingIndependent ==
  delivered = Len(stream) => lines = OneRead(stream)

(***************************************************************************)
(* Claims about the screenshot handler, checked under SpecShot.            *)
(***************************************************************************)

\* the handler of connection c has dealt with all the client sent: it has left
\* its loop, or it has taken every byte from the socket and is past the save
ShotHandled(c) ==
  \/ ss_pc[c] \in { "finally", "dereg", "done" }
  \/ /\ ss_wire[c] = << >>
     /\ ss_pc[c] \in { "count_read", "count_write", "loop", "ts_len" }

\* C4: for every complete frame with declared lengths L1 >= 0 and L2 >= 0
\* that is fully received (the client has sent all of it and keeps the
\* connection open, the server is not shut down, the timestamp is UTF-8), the
\* handler saves a file whose content is exactly the L2 payload bytes.
C4_CompleteFrameSaved ==
  \A c \in ShotConns :
    ( /\ ss_sock[c] # "none"
      /\ ss_peer[c] = "open"
      /\ ss_shutdown = "idle"
      /\ Decodable(ss_frame[c].ts)
      /\ ShotHandled(c) )
    => \E e \in ss_saves :
         /\ e.conn = c
         /\ e.content = Payload(c, ss_frame[c].img_len)
         /\ Len(e.content) = ss_frame[c].img_len

\* C5: a connection whose frame has not arrived completely leaves the files
\* of the screenshot directory alone: every step that creates or changes a
\* file is a step of a handler that holds all the payload bytes of its frame.
C5_PartialFrameWritesNothing ==
  [][ ss_files' # ss_files =>
        \E c \in ShotConns :
          /\ ss_pc[c] \in { "open", "write" }
          /\ ss_wire[c] = << >>
          /\ ss_img_data[c] = Payload(c, ss_frame[c].img_len) ]_vars

\* a connection has ended after a part of its payload had arrived, and the
\* directory is empty
C5_Witness ==
  \E c \in ShotConns :
    /\ ss_pc[c] = "done"
    /\ ss_wire[c] # << >>
    /\ Len(ss_wire[c]) < ss_frame[c].img_len
    /\ ss_files = << >>

\* T with ':' replaced by '-', ' ' by '_' and '.' by '-'
C9_Sanitized(T) ==
  [i \in 1..Len(T) |->
     IF T[i] \in { ":", "." } THEN "-" ELSE IF T[i] = " " THEN "_" ELSE T[i]]

C9_Name(T) ==
  << "s", "c", "r", "e", "e", "n", "s", "h", "o", "t", "_" >> \o C9_Sanitized(T)
    \o << ".", "j", "p", "g" >>

\* C9: a frame with the timestamp text T is saved as "screenshot_" + S +
\* ".jpg", S being T with ':' replaced by '-', ' ' by '_' and '.' by '-'; the
\* name holds no ':', space or '.' before the final ".jpg".
C9_SavedFileName ==
  /\ \A e \in ss_saves :
       /\ e.filename = C9_Name(ss_frame[e.conn].ts)
       /\ e.filename \in DOMAIN ss_files
  /\ \A name \in DOMAIN ss_files :
       /\ \E c \in ShotConns : name = C9_Name(ss_frame[c].ts)
       /\ \A i \in 1..(Len(name) - 4) : name[i] \notin { ":", " ", "." }
       /\ SubSeq(name, Len(name) - 3, Len(name)) = << ".", "j", "p", "g" >>

\* a frame whose timestamp holds a ':' has been saved
C9_Witness ==
  \E e \in ss_saves :
    /\ \E i \in 1..Len(ss_frame[e.conn].ts) : ss_frame[e.conn].ts[i] = ":"
    /\ ss_files[e.filename] = Payload(e.conn, ss_frame[e.conn].img_len)

\* C11: when the signal is delivered at any point of the accept loop of
\* LogServer.run, the shutdown sequence of the signal handler runs to its end
\* and the process exits.
C11_ShutdownCompletes ==
  (ls_shutdown # "idle" /\ ls_main \in { "check", "accept", "lock", "append" })
    ~> (ls_shutdown = "exited")

\* C12: the lifecycle of the screenshot listener is linear with Stopped
\* terminal: once shutdown() has been called its running flag is never true
\* again and it accepts no other connection.
C12_StoppedIsTerminal ==
  /\ [](ss_shutdown # "idle" => ~ss_running)
  /\ [][ss_shutdown # "idle" =>
          \A c \in ShotConns : ss_sock[c] = "none" => ss_sock'[c] = "none"]_vars

\* C19: at every instant a screenshot file that exists holds the complete
\* payload of a received frame, never a part of it and never nothing.
C19_FileAbsentOrComplete ==
  \A name \in DOMAIN ss_files :
    \E c \in ShotConns :
      /\ name = Filename(ss_frame[c].ts)
      /\ ss_frame[c].img_len >= 1
      /\ ss_files[name] = Payload(c, ss_frame[c].img_len)

(***************************************************************************)
(* Claims about the startup of the two listeners, checked under SpecMain.  *)
(***************************************************************************)

\* the bind of the log listener has failed: run() has ended without a signal
LogBindFailed == ls_main = "exited" /\ ls_shutdown = "idle"

\* the bind of the screenshot listener has failed
ScreenshotBindFailed == ss_server = "failed"

\* C13: when the bind of either listener fails during startup the whole
\* system aborts: neither listener is left running.
C13_BindFailureStopsBoth ==
  (LogBindFailed \/ ScreenshotBindFailed) =>
    ~(ProcessLives /\ (running \/ ss_running))

\* C14: when a listener's bind fails at startup, no connection has been or is
\* accepted on either listener and no screenshot is saved.
C14_NoTrafficAroundFailedStartup ==
  (LogBindFailed \/ ScreenshotBindFailed) =>
    /\ \A c \in LogConns : ls_sock[c] = "none"
    /\ \A c \in ShotConns : ss_sock[c] = "none"
    /\ ss_files = << >>

\* C15: a failed bind halts only the listener it hits: the process stops only
\* when both listeners have failed.
C15_OnlyFailedListenerHalts ==
  ~ProcessLives => (LogBindFailed /\ ScreenshotBindFailed)

(***************************************************************************)
(* Claims about the log sink, checked under SpecLog.                       *)
(***************************************************************************)

\* the paths that name log files, the pointer left out
LogFiles == { q \in DOMAIN fs : fs[q].link = NoFile }

Fragment(c, n, h) == [conn |-> c, k |-> n, part |-> h]

\* where the first part of line n of connection c is, over all the files
Places(c, n) ==
  { pl \in UNION { { << q, i >> : i \in 1..Len(fs[q].content) } : q \in LogFiles } :
      fs[pl[1]].content[pl[2]] = Fragment(c, n, 1) }

\* line n of connection c is whole at place pl
WholeAt(c, n, pl) ==
  /\ pl[2] + 1 <= Len(fs[pl[1]].content)
  /\ fs[pl[1]].content[pl[2] + 1] = Fragment(c, n, 2)

\* the handler of connection c is through with its line n
Processed(c, n) ==
  /\ n \in 1..ls_sent[c]
  /\ n # ls_cur[c]
  /\ \A i \in 1..Len(ls_buf[c]) : ls_buf[c][i] # n

\* the files hold every processed line once and whole, no line twice, nothing
\* that was not sent, and they are the file opened at startup and those opened
\* by the rotations
C1_LinesKept ==
  /\ \A c \in LogConns : \A n \in 1..MaxLines :
       /\ Cardinality(Places(c, n)) <= 1
       /\ Places(c, n) # { } => n \in 1..ls_sent[c]
       /\ Processed(c, n) =>
            \E pl \in Places(c, n) : WholeAt(c, n, pl)
  /\ \A q \in LogFiles :
       /\ q \in 1..(rotations + 1)
       /\ \A i \in 1..Len(fs[q].content) :
            fs[q].content[i].part = 2 =>
              /\ i > 1
              /\ fs[q].content[i - 1] =
                   [fs[q].content[i] EXCEPT !.part = 1]

\* a rotation has run and none is reopening the file
C1_Rotated == rotations >= 1 /\ ls_rot \in { "release", "schedule", "idle", "check", "lock" }

C1_PointerAtCurrent ==
  /\ BasePath \in DOMAIN fs
  /\ fs[BasePath].link = current_log_path
  /\ current_log_path = rotations + 1
  /\ current_log_path \in LogFiles

C2_LinesIntact ==
  \A q \in LogFiles : \A i \in 1..Len(fs[q].content) :
    LET f == fs[q].content[i]
    IN /\ (f.part = 1 /\ i < Len(fs[q].content)) =>
            fs[q].content[i + 1] = [f EXCEPT !.part = 2]
       /\ f.part = 2 =>
            /\ i > 1
            /\ fs[q].content[i - 1] = [f EXCEPT !.part = 1]

\* a file holds a whole line of the connection accepted second and, after it,
\* a whole line of the connection accepted first
C2_Witness ==
  \E q \in LogFiles :
    /\ Len(fs[q].content) = 4
    /\ fs[q].content[1] = Fragment("l2", 1, 1)
    /\ fs[q].content[2] = Fragment("l2", 1, 2)
    /\ fs[q].content[3] = Fragment("l1", 1, 1)
    /\ fs[q].content[4] = Fragment("l1", 1, 2)

RECURSIVE SinkFrom(_)
\* what the sink holds: the files from path q on, in the order of their paths
SinkFrom(q) ==
  IF q > now THEN << >>
  ELSE (IF q \in LogFiles THEN fs[q].content ELSE << >>) \o SinkFrom(q + 1)

\* C10: the lines of one connection are in the sink in the order in which
\* they were received, under any interleaving with the other connections,
\* with rotation and with shutdown.
C10_ConnectionOrderKept ==
  LET sink == SinkFrom(BasePath)
  IN \A i \in 1..Len(sink) : \A j \in (i + 1)..Len(sink) :
       (sink[i].conn = sink[j].conn /\ sink[i].part = 1 /\ sink[j].part = 1)
         => sink[i].k < sink[j].k

\* two lines that one recv completed are in the sink, the first in the file
\* open before the rotation and the second in the file open after it
C10_Witness ==
  \E c \in LogConns :
    /\ rotations = 1
    /\ { 1, 2 } \subseteq LogFiles
    /\ fs[1].content = << Fragment(c, 1, 1), Fragment(c, 1, 2) >>
    /\ fs[2].content = << Fragment(c, 2, 1), Fragment(c, 2, 2) >>
    /\ ls_buf[c] = << >>
    /\ ls_pc[c] = "line"

\* C16: the handle of the log file is neither closed nor replaced between the
\* start of a handler's write of a line and the end of its flush.
C16_HandleStableDuringWrite ==
  \A c \in LogConns :
    ls_pc[c] \in { "write2", "flush" } =>
      /\ ls_handle[c] \in open_handles
      /\ out_file = ls_handle[c]

\* C17: once LogServer.shutdown() has completed, the handle of the log file
\* is closed and stays closed, no rotation timer is pending, no rotation opens
\* a file and no line is written to a log file.
C17_SinkClosedAfterShutdown ==
  /\ [](ls_shutdown = "done" =>
          /\ open_handles = { }
          /\ rotation_timer # "pending")
  /\ [][ls_shutdown = "done" => fs' = fs]_vars

\* the log listener has let go of all it accepted: every socket is closed,
\* every handler has ended and the registry is empty, or the process is gone
LogAllReleased ==
  \/ ~ProcessLives
  \/ /\ clients = { }
     /\ \A c \in LogConns :
          /\ ls_sock[c] # "open"
          /\ ls_pc[c] \in { "none", "done" }

\* C18: after shutdown() of the log listener, eventually and for ever after
\* every connection it accepted has its socket closed and its handler ended
\* and the registry is empty, also for a connection whose accept completes
\* as the shutdown begins.
C18_AllConnectionsReleased ==
  <>[](ls_shutdown = "idle" \/ LogAllReleased)

\* s is the beginning of t
C20_Prefix(s, t) == Len(s) <= Len(t) /\ SubSeq(t, 1, Len(s)) = s

\* C20: with rotation off and an output file configured, the sink opens the
\* configured path itself, once, at startup; no rotation timer is ever
\* scheduled; the current path and the handle never change afterwards; no
\* pointer is created; and every line is appended to that one file.
C20_NoRotationSingleFile ==
  /\ []((output_file /\ rotate_minutes = 0) =>
          /\ rotation_timer = "none"
          /\ rotations = 0
          /\ DOMAIN fs \subseteq { BasePath }
          /\ LogFiles = DOMAIN fs
          /\ ls_main \in { "schedule", "check", "accept", "lock", "append" } =>
               /\ out_file = BasePath
               /\ current_log_path = BasePath
               /\ BasePath \in LogFiles
          /\ ls_shutdown = "idle" =>
               \A c \in LogConns : \A n \in 1..MaxLines :
                 Processed(c, n) =>
                   \E pl \in Places(c, n) : pl[1] = BasePath /\ WholeAt(c, n, pl))
  /\ [][(output_file /\ rotate_minutes = 0) =>
          /\ out_file # NoFile =>
               /\ out_file' = out_file
               /\ current_log_path' = current_log_path
          /\ ~(open_handles' \subseteq open_handles) =>
               /\ ls_main = "open"
               /\ out_file = NoFile
               /\ open_handles' = { BasePath }
          /\ BasePath \in DOMAIN fs =>
               /\ BasePath \in DOMAIN fs'
               /\ C20_Prefix(fs[BasePath].content, fs'[BasePath].content)]_vars

\* with rotation off, two lines have been written to the configured path
C20_Witness ==
  /\ output_file
  /\ rotate_minutes = 0
  /\ ls_shutdown = "idle"
  /\ out_file = BasePath
  /\ DOMAIN fs = { BasePath }
  /\ Len(fs[BasePath].content) = 4
  /\ \A c \in LogConns : ls_cur[c] = 0

\* the update of the pointer has failed in the last rotation, which is past
\* it, and no shutdown has begun
C22_PointerFailedInRotation ==
  /\ rotations >= 1
  /\ link_failed
  /\ ls_rot \in { "release", "schedule", "idle" }
  /\ ls_shutdown = "idle"

\* C22: when the update of the pointer fails in a rotation, the rotation goes
\* on to its end: the new timestamped file is the open handle of the sink, the
\* lines written from then on go to it, the lock is released and the next
\* rotation is scheduled.
C22_RotationCompletesWithoutPointer ==
  C22_PointerFailedInRotation =>
    /\ current_log_path = now
    /\ current_log_path # BasePath
    /\ out_file = current_log_path
    /\ out_file \in open_handles
    /\ out_file \in LogFiles
    /\ lock = "rotate" <=> ls_rot = "release"
    /\ ls_rot = "idle" => rotation_timer = "pending"
    /\ \A c \in LogConns :
         ls_pc[c] \in { "write2", "flush" } =>
           /\ ls_handle[c] = out_file
           /\ \E i \in 1..Len(fs[out_file].content) :
                fs[out_file].content[i] = Fragment(c, ls_cur[c], 1)

\* the pointer could not be updated in a rotation that has ended with the
\* next one scheduled, and a line written since is whole in the new file
C22_Witness ==
  /\ C22_PointerFailedInRotation
  /\ ls_rot = "idle"
  /\ rotation_timer = "pending"
  /\ lock = "free"
  /\ \E c \in LogConns : \E n \in 1..MaxLines :
       /\ Processed(c, n)
       /\ \E pl \in Places(c, n) : pl[1] = out_file /\ WholeAt(c, n, pl)

\* C25: in shutdown the listening socket is closed before the registered
\* connection sockets: the step of shutdown() that closes the sockets of the
\* registry and clears it is taken only once the listening socket is closed.
C25_ListenerClosedBeforeClients ==
  [][(ls_shutdown = "clients" /\ ls_shutdown' = "server" /\ clients # { })
       => server_socket = "closed"]_vars

\* C26: after a receive timeout _recv_exact never resumes reading the same
\* field: once recv has timed out in the read of a field, no further byte of
\* the connection is read into that field.
C26_NoReadAfterTimeout ==
  [][\A c \in ShotConns :
       (InRecvExact(c) /\ ss_timed_out[c]) => ss_wire'[c] = ss_wire[c]]_vars

C28_HandlerExitsAfterClose ==
  \A c \in LogConns :
    (ls_pc[c] = "recv" /\ (ls_peer[c] = "closed" \/ ls_sock[c] = "closed")) ~>
      \/ ~ProcessLives
      \/ /\ ls_pc[c] = "done"
         /\ ls_sock[c] = "closed"
         /\ c \notin clients

\* what the listener and the connection d show of themselves
C29_Others(c) ==
  << ss_running, ss_server, ss_accept, screenshot_count, ss_files, ss_saves,
     [d \in ShotConns \ { c } |->
        << ss_sock[d], ss_peer[d], ss_pc[d], ss_wire[d], ss_need[d],
           ss_data[d], ss_timestamp[d], ss_img_data[d], d \in ss_clients >>] >>

\* C29: a failure on one connection (a timestamp that does not decode, a
\* frame cut short or given up, a reset by the peer) ends the handler of that
\* connection only: the step by which the handler leaves its loop, the close
\* of its socket and its removal from the registry change nothing of the
\* listener, which goes on accepting, nor of any other connection, which
\* stays open and registered with its handler where it was.
C29_FailureStaysLocal ==
  [][\A c \in ShotConns :
       (ss_shutdown = "idle" /\ ss_pc'[c] # ss_pc[c]
          /\ ss_pc'[c] \in { "finally", "dereg", "done" }) =>
         /\ C29_Others(c)' = C29_Others(c)
         /\ ss_clients' \in { ss_clients, ss_clients \ { c } }]_vars

\* the first connection sent a timestamp that does not decode and its handler
\* has ended; the second is open and registered, its frame saved, its handler
\* back in its loop, and the listener is accepting
C29_Witness ==
  /\ ss_shutdown = "idle"
  /\ ss_frame["s1"].ts = << "FF" >>
  /\ ss_pc["s1"] = "done"
  /\ "s1" \notin ss_clients
  /\ \A r \in ss_saves : r.conn = "s2"
  /\ ss_saves # { }
  /\ ss_pc["s2"] \in { "ts_len", "loop" }
  /\ ss_sock["s2"] = "open"
  /\ "s2" \in ss_clients
  /\ ss_running
  /\ ss_server = "listening"
  /\ ss_accept \in { "check", "accept" }

\* C30: no thread holds the lock while it waits on the network: the main
\* thread holds it only to append to the registry, never in accept; a handler
\* holds it only to write and flush its line, never in recv; the timer thread
\* holds it only from the close of the old file to the end of the open of the
\* new one.
C30_NoLockAcrossNetworkWait ==
  /\ lock = "main" <=> ls_main = "append"
  /\ ls_main = "accept" => lock # "main"
  /\ lock = "rotate" <=>
       ls_rot \in { "close", "open", "unlink", "symlink", "release" }
  /\ \A c \in LogConns :
       /\ lock = c <=> ls_pc[c] \in { "write", "write2", "flush" }
       /\ ls_pc[c] = "recv" => lock # c

\* a handler that has written a line under the lock is back in recv and the
\* main thread is in accept, while the other handler holds the lock to write
C30_Witness ==
  /\ ls_pc["l1"] = "recv"
  /\ Processed("l1", 1)
  /\ \E pl \in Places("l1", 1) : WholeAt("l1", 1, pl)
  /\ ls_main = "accept"
  /\ lock = "l2"
  /\ ls_shutdown = "idle"

(***************************************************************************)
(* Claims about the terminal output, checked under SpecEcho.               *)
(***************************************************************************)

\* C21: with no output file the sink does nothing, whatever lines arrive and
\* whenever the timer ticks: no file is opened, written, rotated or linked and
\* nothing is said about one, while every line a handler is through with has
\* been echoed on the terminal when the terminal output is on.
C21_NoFileSinkIsNoOp ==
  ~output_file =>
    /\ fs = << >>
    /\ out_file = NoFile
    /\ open_handles = { }
    /\ current_log_path = NoFile
    /\ rotations = 0
    /\ \A e \in console : e.what \notin { "writing", "rotated", "error" }
    /\ ~quiet =>
         \A c \in LogConns : \A n \in 1..MaxLines :
           Processed(c, n) => Event("line", c, n) \in console

\* with no output file and rotation on, the timer has ticked, _rotate_log has
\* returned and two lines have been echoed
C21_Witness ==
  /\ ~output_file
  /\ rotate_minutes > 0
  /\ rotation_timer = "fired"
  /\ ls_rot = "idle"
  /\ Cardinality({ e \in console : e.what = "line" }) = 2

\* C23: whenever the update of the pointer fails, in the first open of the
\* file or in a rotation, a message that reports the failure is on the
\* terminal (taken here with the terminal output on).
C23_PointerFailureReported ==
  (link_failed /\ ~quiet) =>
    \E e \in console : e.what = "pointer_failed"

\* C24: with quiet set, no operation of the running server prints to the
\* terminal: nothing is printed but the report of a failed bind, which ends
\* the process before it runs.
C24_QuietPrintsNothing ==
  quiet => \A e \in console : e.what = "bind_error"

(***************************************************************************)
(* Further claims about format_unified_log, checked under SpecParse.       *)
(***************************************************************************)

\* the 1-based place of the first "]" of the message, or 0
FirstClose(s) == Find(s, "]") + 1

\* C33: a line "[T] R" whose first bracketed token T is not the name of a
\* level parses to level = info, category = T and message = R.
C33_CategoryOnlyLine ==
  formatted =>
    LET i == FirstClose(message)
        T == SubSeq(message, 2, i - 1)
        R == SubSeq(message, i + 2, Len(message))
    IN ( /\ StartsWith(message, "[")
         /\ i >= 2
         /\ i + 1 <= Len(message)
         /\ message[i + 1] = " "
         /\ Lower(T) \notin LEVEL_COLORS )
       => /\ result.level = DefaultLevel
          /\ result.category = T
          /\ result.text = R

\* "[Ab] ] x" has been formatted: the category is Ab and the message "] x"
C33_Witness ==
  /\ formatted
  /\ message = << "[", "A", "b", "]", " ", "]", " ", "x" >>
  /\ result.category = << "A", "b" >>
  /\ result.text = << "]", " ", "x" >>

\* C34: a line "[L] [C]R" with L the name of a level parses to category = C
\* and to the message R, less at most one space that separates it from the
\* bracket: no other character of R is dropped.
C34_MessageAfterCategory ==
  formatted =>
    \A i \in 2..Len(message) : \A j \in (i + 3)..Len(message) :
      LET L == SubSeq(message, 2, i - 1)
          C == SubSeq(message, i + 3, j - 1)
          R == SubSeq(message, j + 1, Len(message))
      IN ( /\ message[1] = "["
           /\ Lower(L) \in LEVEL_COLORS
           /\ SubSeq(message, i, i + 2) = << "]", " ", "[" >>
           /\ \A k \in 1..Len(C) : C[k] # "]"
           /\ message[j] = "]" )
         => /\ result.category = C
            /\ \/ result.text = R
               \/ StartsWith(R, " ") /\ result.text = Tail(R)

\* C35: when the first bracketed token is the name of a level, in any letter
\* case, it is consumed: the message is taken from the remainder after
\* "[LEVEL] " and never still begins with the level token, also when the
\* remainder starts with "[" and has no "]".
C35_LevelTokenConsumed ==
  formatted =>
    \A i \in 2..(Len(message) - 1) :
      LET L         == SubSeq(message, 2, i - 1)
          remainder == SubSeq(message, i + 2, Len(message))
      IN ( /\ message[1] = "["
           /\ Lower(L) \in LEVEL_COLORS
           /\ message[i] = "]"
           /\ message[i + 1] = " " )
         => /\ result.level = Lower(L)
            /\ Len(result.text) <= Len(remainder)
            /\ result.text =
                 SubSeq(remainder, Len(remainder) - Len(result.text) + 1,
                        Len(remainder))

(***************************************************************************)
(* A claim about the end of a log connection, checked under SpecSplit.     *)
(***************************************************************************)

\* the bytes up to and including the last newline
RECURSIVE TerminatedPart(_)
TerminatedPart(bytes) ==
  IF bytes = << >> THEN << >>
  ELSE IF bytes[Len(bytes)] = "0A" THEN bytes
  ELSE TerminatedPart(SubSeq(bytes, 1, Len(bytes) - 1))

C38_Received == SubSeq(stream, 1, delivered)

C38_Ascii(bytes) == \A i \in 1..Len(bytes) : bytes[i] \notin { "C3", "A9" }

\* C38: the bytes received after the last newline are never processed, while
\* the connection is open or once it has ended (peer close, socket error or
\* shutdown): the lines handed to the parser are as many as the non-blank
\* segments that a newline ends in the bytes received, for ASCII bytes they
\* are exactly those segments, and an unterminated rest is in the buffer
\* only.
C38_TrailingDiscarded ==
  /\ Len(lines) = Len(OneRead(TerminatedPart(C38_Received)))
  /\ C38_Ascii(C38_Received) => lines = OneRead(TerminatedPart(C38_Received))
  /\ Find(buffer, "\n") = -1
  /\ (buffer = << >>) <=> (TerminatedPart(C38_Received) = C38_Received)

\* the peer sent a line, then "a" without a newline, and closed: the handler
\* has left its loop with the "a" in its buffer and one line processed
C38_Witness ==
  /\ closed
  /\ stream = << "61", "0A", "61" >>
  /\ delivered = 3
  /\ buffer = << "a" >>
  /\ lines = << << "a" >> >>

(***************************************************************************)
(* Claims about the screenshot counter, the file names and the paths.      *)
(***************************************************************************)

\* C31: the counter of the screenshot server counts the saved frames under
\* every interleaving of the handlers: it never decreases, and whenever no
\* handler is in the middle of `self.screenshot_count += 1` it equals the
\* number of frames saved.
C31_CounterCountsSaves ==
  (\A c \in ShotConns : ss_pc[c] \notin { "count_read", "count_write" })
    => screenshot_count = Cardinality(ss_saves)

\* C32: every saved frame has a file name of its own: two frames saved by the
\* server, on the same connection or on two, never have the same file name,
\* so that no screenshot is written over another.
C32_FileNamesUnique ==
  \A e1 \in ss_saves : \A e2 \in ss_saves :
    e1 # e2 => e1.filename # e2.filename

\* the place is below the screenshot directory
C39_Inside(place) ==
  /\ Len(place) > Len(OutputDir)
  /\ SubSeq(place, 1, Len(OutputDir)) = OutputDir

\* C39: whatever text the client sends as timestamp, with "/", "." and ".."
\* in it too, every file the handler creates, truncates or writes is inside
\* the screenshot directory.  Checked under SpecPath.
C39_PathInsideDir ==
  /\ \A f \in DOMAIN ss_files : C39_Inside(Resolve(FilePath(f)))
  /\ \A e \in ss_saves : C39_Inside(Resolve(FilePath(e.filename)))
  /\ \A c \in ShotConns :
       ss_pc[c] \in { "open", "write" } =>
         C39_Inside(Resolve(FilePath(Filename(ss_timestamp[c]))))

\* the client sent the timestamp "/..", the directory screenshot_ is there,
\* and the handler has written the file --.jpg in it
C39_Witness ==
  /\ ss_frame["s1"].ts = << "/", ".", "." >>
  /\ \E e \in ss_saves :
       /\ e.conn = "s1"
       /\ HasSlash(e.filename)
       /\ Resolve(FilePath(e.filename)) =
            OutputDir \o << FilePrefix, << "-", "-", ".", "j", "p", "g" >> >>

(***************************************************************************)
(* Claims about the rotation timer and the pointer, checked under SpecRot. *)
(***************************************************************************)

\* _schedule_rotation is never called while a timer is pending, so that no
\* two timers are; and a rotation that has ended has left one pending
C36_OneTimer ==
  /\ ls_main = "schedule" => rotation_timer = "none"
  /\ ls_rot = "schedule" => rotation_timer = "fired"
  /\ rotation_timer = "pending" => ls_rot = "idle"
  /\ (running /\ rotations >= 1 /\ ls_rot = "idle") =>
       rotation_timer = "pending"

\* C36: while the server runs with rotation on and an output file, rotations
\* recur: a rotation that has ended has left exactly one timer pending, no
\* two timers are ever pending, and whenever a timer is pending a further
\* rotation eventually happens (here up to the bound on the rotations of a
\* behaviour).
C36_RotationsRecur ==
  /\ [](C36_OneTimer)
  /\ \A k \in 0..(MaxTicks - 1) :
       (running /\ rotation_timer = "pending" /\ rotations = k)
         ~> (rotations > k \/ ~running)

\* the second rotation has ended and has left its timer pending
C36_Witness ==
  /\ running
  /\ rotations = 2
  /\ ls_rot = "idle"
  /\ rotation_timer = "pending"
  /\ lock = "free"

\* C37: the pointer is maintained atomically: once it has been created, the
\* configured path names, at every instant, a link to a log file that exists,
\* in the middle of a rotation too.
C37_PointerNeverMissing ==
  [][(BasePath \in DOMAIN fs /\ fs[BasePath].link # NoFile) =>
       /\ BasePath \in DOMAIN fs'
       /\ fs'[BasePath].link \in DOMAIN fs'
       /\ fs'[fs'[BasePath].link].link = NoFile]_vars

\* C40: opening the log file with rotation on never destroys log data
\* written before: the lines of a regular file that is at the configured
\* path when the server starts are still to be found, in some file, after
\* the startup and after every rotation.
C40_OldLogKept ==
  [][(\E q \in DOMAIN fs : fs[q].link = NoFile /\ fs[q].content = OldLog) =>
       \E q \in DOMAIN fs' :
         /\ fs'[q].link = NoFile
         /\ C20_Prefix(OldLog, fs'[q].content)]_vars

(***************************************************************************)
(* The specifications.                                                     *)
(***************************************************************************)

\* format_unified_log applied once to one of the lines
InitParse ==
  /\ message \in Lines
  /\ formatted = FALSE
  /\ result = NoResult
  /\ stream = << >>
  /\ delivered = 0
  /\ buffer = << >>
  /\ lines = << >>
  /\ closed = TRUE
  /\ ss_server = "none"
  /\ ss_running = FALSE
  /\ ss_accept = "exited"
  /\ ss_shutdown = "idle"
  /\ ss_clients = { }
  /\ screenshot_count = 0
  /\ ss_files = << >>
  /\ ss_frame = [c \in ShotConns |-> [ts |-> << >>, img_len |-> 0]]
  /\ ss_wire = [c \in ShotConns |-> << >>]
  /\ ss_peer = [c \in ShotConns |-> "open"]
  /\ ss_sock = [c \in ShotConns |-> "none"]
  /\ ss_pc = [c \in ShotConns |-> "idle"]
  /\ ss_need = [c \in ShotConns |-> 0]
  /\ ss_timed_out = [c \in ShotConns |-> FALSE]
  /\ ss_data = [c \in ShotConns |-> << >>]
  /\ ss_timestamp = [c \in ShotConns |-> << >>]
  /\ ss_img_data = [c \in ShotConns |-> << >>]
  /\ ss_count_read = [c \in ShotConns |-> 0]
  /\ ss_saves = { }
  /\ output_file = FALSE
  /\ rotate_minutes = 0
  /\ quiet = FALSE
  /\ console = { }
  /\ running = FALSE
  /\ server_socket = "none"
  /\ ls_main = "exited"
  /\ ls_pending = "none"
  /\ clients = { }
  /\ lock = "free"
  /\ out_file = NoFile
  /\ open_handles = { }
  /\ current_log_path = NoFile
  /\ fs = << >>
  /\ link_failed = FALSE
  /\ rotation_timer = "none"
  /\ ls_rot = "idle"
  /\ now = 1
  /\ rotations = 0
  /\ ls_shutdown = "idle"
  /\ ls_sock = [c \in LogConns |-> "none"]
  /\ ls_peer = [c \in LogConns |-> "open"]
  /\ ls_pc = [c \in LogConns |-> "none"]
  /\ ls_sent = [c \in LogConns |-> 0]
  /\ ls_buf = [c \in LogConns |-> << >>]
  /\ ls_cur = [c \in LogConns |-> 0]
  /\ ls_handle = [c \in LogConns |-> NoFile]

ParseNext ==
  \/ FormatLine /\ UNCHANGED << splitVars, shotVars, logVars >>

SpecParse == InitParse /\ [][ParseNext]_vars

\* one log connection on which the client sends one of the streams
InitSplit ==
  /\ stream \in StreamsOf(MaxStream)
  /\ delivered = 0
  /\ buffer = << >>
  /\ lines = << >>
  /\ closed = FALSE
  /\ message = << >>
  /\ formatted = FALSE
  /\ result = NoResult
  /\ ss_server = "none"
  /\ ss_running = FALSE
  /\ ss_accept = "exited"
  /\ ss_shutdown = "idle"
  /\ ss_clients = { }
  /\ screenshot_count = 0
  /\ ss_files = << >>
  /\ ss_frame = [c \in ShotConns |-> [ts |-> << >>, img_len |-> 0]]
  /\ ss_wire = [c \in ShotConns |-> << >>]
  /\ ss_peer = [c \in ShotConns |-> "open"]
  /\ ss_sock = [c \in ShotConns |-> "none"]
  /\ ss_pc = [c \in ShotConns |-> "idle"]
  /\ ss_need = [c \in ShotConns |-> 0]
  /\ ss_timed_out = [c \in ShotConns |-> FALSE]
  /\ ss_data = [c \in ShotConns |-> << >>]
  /\ ss_timestamp = [c \in ShotConns |-> << >>]
  /\ ss_img_data = [c \in ShotConns |-> << >>]
  /\ ss_count_read = [c \in ShotConns |-> 0]
  /\ ss_saves = { }
  /\ output_file = FALSE
  /\ rotate_minutes = 0
  /\ quiet = FALSE
  /\ console = { }
  /\ running = FALSE
  /\ server_socket = "none"
  /\ ls_main = "exited"
  /\ ls_pending = "none"
  /\ clients = { }
  /\ lock = "free"
  /\ out_file = NoFile
  /\ open_handles = { }
  /\ current_log_path = NoFile
  /\ fs = << >>
  /\ link_failed = FALSE
  /\ rotation_timer = "none"
  /\ ls_rot = "idle"
  /\ now = 1
  /\ rotations = 0
  /\ ls_shutdown = "idle"
  /\ ls_sock = [c \in LogConns |-> "none"]
  /\ ls_peer = [c \in LogConns |-> "open"]
  /\ ls_pc = [c \in LogConns |-> "none"]
  /\ ls_sent = [c \in LogConns |-> 0]
  /\ ls_buf = [c \in LogConns |-> << >>]
  /\ ls_cur = [c \in LogConns |-> 0]
  /\ ls_handle = [c \in LogConns |-> NoFile]

SplitNext ==
  \/ RecvData /\ UNCHANGED << parseVars, shotVars, logVars >>
  \/ RecvEof /\ UNCHANGED << parseVars, shotVars, logVars >>
  \/ RecvBreak /\ UNCHANGED << parseVars, shotVars, logVars >>

SpecSplit == InitSplit /\ [][SplitNext]_vars

\* a constructed ScreenshotServer and one client, which sends one of the frames
InitShot ==
  /\ ss_server = "none"
  /\ ss_running = FALSE
  /\ ss_accept = "check"
  /\ ss_shutdown = "idle"
  /\ ss_clients = { }
  /\ screenshot_count = 0
  /\ ss_files = << >>
  /\ ss_frame \in [ShotConns -> Frames]
  /\ ss_wire = [c \in ShotConns |-> WireOf(c, ss_frame[c])]
  /\ ss_peer \in [ShotConns -> { "open", "absent" }]
  /\ Cardinality({c \in ShotConns : ss_peer[c] = "open"}) = 1
  /\ \A c \in ShotConns :
       ss_peer[c] = "absent" => ss_frame[c] = [ts |-> << >>, img_len |-> 0]
  /\ ss_sock = [c \in ShotConns |-> "none"]
  /\ ss_pc = [c \in ShotConns |-> "idle"]
  /\ ss_need = [c \in ShotConns |-> 0]
  /\ ss_timed_out = [c \in ShotConns |-> FALSE]
  /\ ss_data = [c \in ShotConns |-> << >>]
  /\ ss_timestamp = [c \in ShotConns |-> << >>]
  /\ ss_img_data = [c \in ShotConns |-> << >>]
  /\ ss_count_read = [c \in ShotConns |-> 0]
  /\ ss_saves = { }
  /\ message = << >>
  /\ formatted = FALSE
  /\ result = NoResult
  /\ stream = << >>
  /\ delivered = 0
  /\ buffer = << >>
  /\ lines = << >>
  /\ closed = TRUE
  /\ output_file = FALSE
  /\ rotate_minutes = 0
  /\ quiet = FALSE
  /\ console = { }
  /\ running = FALSE
  /\ server_socket = "none"
  /\ ls_main = "exited"
  /\ ls_pending = "none"
  /\ clients = { }
  /\ lock = "free"
  /\ out_file = NoFile
  /\ open_handles = { }
  /\ current_log_path = NoFile
  /\ fs = << >>
  /\ link_failed = FALSE
  /\ rotation_timer = "none"
  /\ ls_rot = "idle"
  /\ now = 1
  /\ rotations = 0
  /\ ls_shutdown = "idle"
  /\ ls_sock = [c \in LogConns |-> "none"]
  /\ ls_peer = [c \in LogConns |-> "open"]
  /\ ls_pc = [c \in LogConns |-> "none"]
  /\ ls_sent = [c \in LogConns |-> 0]
  /\ ls_buf = [c \in LogConns |-> << >>]
  /\ ls_cur = [c \in LogConns |-> 0]
  /\ ls_handle = [c \in LogConns |-> NoFile]

notShot == << parseVars, splitVars, logVars >>

ShotNext ==
  \/ ScreenshotRun /\ UNCHANGED notShot
  \/ ScreenshotStart /\ UNCHANGED notShot
  \/ ScreenshotBindFails /\ UNCHANGED notShot
  \/ ScreenshotLoopCheck /\ UNCHANGED notShot
  \/ ScreenshotAcceptFails /\ UNCHANGED notShot
  \/ ScreenshotShutdownFlag /\ UNCHANGED notShot
  \/ ScreenshotShutdownClients /\ UNCHANGED notShot
  \/ ScreenshotShutdownServer /\ UNCHANGED notShot
  \/ \E c \in ShotConns : ScreenshotAccept(c) /\ UNCHANGED notShot
  \/ \E c \in ShotConns : ScreenshotPeerClose(c) /\ UNCHANGED notShot
  \/ \E c \in ShotConns : ShotLoop(c) /\ UNCHANGED notShot
  \/ \E c \in ShotConns : ShotRecv(c) /\ UNCHANGED notShot
  \/ \E c \in ShotConns : ShotRecvEof(c) /\ UNCHANGED notShot
  \/ \E c \in ShotConns : ShotRecvTimeout(c) /\ UNCHANGED notShot
  \/ \E c \in ShotConns : ShotRecvTimeoutStopped(c) /\ UNCHANGED notShot
  \/ \E c \in ShotConns : ShotRecvError(c) /\ UNCHANGED notShot
  \/ \E c \in ShotConns : ShotOpen(c) /\ UNCHANGED notShot
  \/ \E c \in ShotConns : ShotWrite(c) /\ UNCHANGED notShot
  \/ \E c \in ShotConns : ShotCountRead(c) /\ UNCHANGED notShot
  \/ \E c \in ShotConns : ShotCountWrite(c) /\ UNCHANGED notShot
  \/ \E c \in ShotConns : ShotFinally(c) /\ UNCHANGED notShot
  \/ \E c \in ShotConns : ShotDeregister(c) /\ UNCHANGED notShot

SpecShot == InitShot /\ [][ShotNext]_vars

\* two clients connect, each with one frame to send: the second a frame that
\* is in order, the first one whose timestamp may not decode
PairFrames ==
  { [ts |-> << "FF" >>, img_len |-> 1], [ts |-> << "1", ":" >>, img_len |-> 1],
    [ts |-> << " ", "." >>, img_len |-> 1] }

InitPair ==
  /\ ss_server = "none"
  /\ ss_running = FALSE
  /\ ss_accept = "check"
  /\ ss_shutdown = "idle"
  /\ ss_clients = { }
  /\ screenshot_count = 0
  /\ ss_files = << >>
  /\ ss_frame \in [ShotConns -> PairFrames]
  /\ ss_frame["s2"] = [ts |-> << " ", "." >>, img_len |-> 1]
  /\ ss_wire = [c \in ShotConns |-> WireOf(c, ss_frame[c])]
  /\ ss_peer = [c \in ShotConns |-> "open"]
  /\ ss_sock = [c \in ShotConns |-> "none"]
  /\ ss_pc = [c \in ShotConns |-> "idle"]
  /\ ss_need = [c \in ShotConns |-> 0]
  /\ ss_timed_out = [c \in ShotConns |-> FALSE]
  /\ ss_data = [c \in ShotConns |-> << >>]
  /\ ss_timestamp = [c \in ShotConns |-> << >>]
  /\ ss_img_data = [c \in ShotConns |-> << >>]
  /\ ss_count_read = [c \in ShotConns |-> 0]
  /\ ss_saves = { }
  /\ message = << >>
  /\ formatted = FALSE
  /\ result = NoResult
  /\ stream = << >>
  /\ delivered = 0
  /\ buffer = << >>
  /\ lines = << >>
  /\ closed = TRUE
  /\ output_file = FALSE
  /\ rotate_minutes = 0
  /\ quiet = FALSE
  /\ console = { }
  /\ running = FALSE
  /\ server_socket = "none"
  /\ ls_main = "exited"
  /\ ls_pending = "none"
  /\ clients = { }
  /\ lock = "free"
  /\ out_file = NoFile
  /\ open_handles = { }
  /\ current_log_path = NoFile
  /\ fs = << >>
  /\ link_failed = FALSE
  /\ rotation_timer = "none"
  /\ ls_rot = "idle"
  /\ now = 1
  /\ rotations = 0
  /\ ls_shutdown = "idle"
  /\ ls_sock = [c \in LogConns |-> "none"]
  /\ ls_peer = [c \in LogConns |-> "open"]
  /\ ls_pc = [c \in LogConns |-> "none"]
  /\ ls_sent = [c \in LogConns |-> 0]
  /\ ls_buf = [c \in LogConns |-> << >>]
  /\ ls_cur = [c \in LogConns |-> 0]
  /\ ls_handle = [c \in LogConns |-> NoFile]

\* the listener and the handlers of the two connections while no signal
\* arrives
PairNext ==
  \/ ScreenshotRun /\ UNCHANGED notShot
  \/ ScreenshotStart /\ UNCHANGED notShot
  \/ ScreenshotLoopCheck /\ UNCHANGED notShot
  \/ ScreenshotAcceptFails /\ UNCHANGED notShot
  \/ \E c \in ShotConns : ScreenshotAccept(c) /\ UNCHANGED notShot
  \/ \E c \in ShotConns : ScreenshotPeerClose(c) /\ UNCHANGED notShot
  \/ \E c \in ShotConns : ShotLoop(c) /\ UNCHANGED notShot
  \/ \E c \in ShotConns : ShotRecv(c) /\ UNCHANGED notShot
  \/ \E c \in ShotConns : ShotRecvEof(c) /\ UNCHANGED notShot
  \/ \E c \in ShotConns : ShotRecvTimeout(c) /\ UNCHANGED notShot
  \/ \E c \in ShotConns : ShotOpen(c) /\ UNCHANGED notShot
  \/ \E c \in ShotConns : ShotWrite(c) /\ UNCHANGED notShot
  \/ \E c \in ShotConns : ShotCountRead(c) /\ UNCHANGED notShot
  \/ \E c \in ShotConns : ShotCountWrite(c) /\ UNCHANGED notShot
  \/ \E c \in ShotConns : ShotFinally(c) /\ UNCHANGED notShot
  \/ \E c \in ShotConns : ShotDeregister(c) /\ UNCHANGED notShot

SpecPair == InitPair /\ [][PairNext]_vars

\* one client, which sends one frame whose timestamp is any text of "/", "."
\* and "1", and no signal; a directory that the file name names under the
\* screenshot directory may be there or not
MaxTsLen == 3

PathChars == { "/", ".", "1" }

RECURSIVE TextsOf(_)
TextsOf(n) ==
  IF n = 0 THEN { << >> }
  ELSE LET prev == TextsOf(n - 1)
       IN prev \cup {t \o << ch >> : t \in prev, ch \in PathChars}

PathFrames == [ts : TextsOf(MaxTsLen) \ { << >> }, img_len : { 1 }]

InitPath ==
  /\ ss_server = "none"
  /\ ss_running = FALSE
  /\ ss_accept = "check"
  /\ ss_shutdown = "idle"
  /\ ss_clients = { }
  /\ screenshot_count = 0
  /\ ss_files = << >>
  /\ ss_frame \in [ShotConns -> PathFrames \cup { [ts |-> << >>, img_len |-> 0] }]
  /\ ss_frame["s1"] \in PathFrames
  /\ ss_frame["s2"] = [ts |-> << >>, img_len |-> 0]
  /\ ss_wire = [c \in ShotConns |-> WireOf(c, ss_frame[c])]
  /\ ss_peer = [c \in ShotConns |-> IF c = "s1" THEN "open" ELSE "absent"]
  /\ ss_sock = [c \in ShotConns |-> "none"]
  /\ ss_pc = [c \in ShotConns |-> "idle"]
  /\ ss_need = [c \in ShotConns |-> 0]
  /\ ss_timed_out = [c \in ShotConns |-> FALSE]
  /\ ss_data = [c \in ShotConns |-> << >>]
  /\ ss_timestamp = [c \in ShotConns |-> << >>]
  /\ ss_img_data = [c \in ShotConns |-> << >>]
  /\ ss_count_read = [c \in ShotConns |-> 0]
  /\ ss_saves = { }
  /\ message = << >>
  /\ formatted = FALSE
  /\ result = NoResult
  /\ stream = << >>
  /\ delivered = 0
  /\ buffer = << >>
  /\ lines = << >>
  /\ closed = TRUE
  /\ output_file = FALSE
  /\ rotate_minutes = 0
  /\ quiet = FALSE
  /\ console = { }
  /\ running = FALSE
  /\ server_socket = "none"
  /\ ls_main = "exited"
  /\ ls_pending = "none"
  /\ clients = { }
  /\ lock = "free"
  /\ out_file = NoFile
  /\ open_handles = { }
  /\ current_log_path = NoFile
  /\ fs = << >>
  /\ link_failed = FALSE
  /\ rotation_timer = "none"
  /\ ls_rot = "idle"
  /\ now = 1
  /\ rotations = 0
  /\ ls_shutdown = "idle"
  /\ ls_sock = [c \in LogConns |-> "none"]
  /\ ls_peer = [c \in LogConns |-> "open"]
  /\ ls_pc = [c \in LogConns |-> "none"]
  /\ ls_sent = [c \in LogConns |-> 0]
  /\ ls_buf = [c \in LogConns |-> << >>]
  /\ ls_cur = [c \in LogConns |-> 0]
  /\ ls_handle = [c \in LogConns |-> NoFile]

PathNext ==
  \/ ScreenshotRun /\ UNCHANGED notShot
  \/ ScreenshotStart /\ UNCHANGED notShot
  \/ ScreenshotLoopCheck /\ UNCHANGED notShot
  \/ ScreenshotAcceptFails /\ UNCHANGED notShot
  \/ \E c \in ShotConns : ScreenshotAccept(c) /\ UNCHANGED notShot
  \/ \E c \in ShotConns : ScreenshotPeerClose(c) /\ UNCHANGED notShot
  \/ \E c \in ShotConns : ShotLoop(c) /\ UNCHANGED notShot
  \/ \E c \in ShotConns : ShotRecv(c) /\ UNCHANGED notShot
  \/ \E c \in ShotConns : ShotRecvEof(c) /\ UNCHANGED notShot
  \/ \E c \in ShotConns : ShotRecvTimeout(c) /\ UNCHANGED notShot
  \/ \E c \in ShotConns : ShotOpen(c) /\ UNCHANGED notShot
  \/ \E c \in ShotConns : ShotOpenFails(c) /\ UNCHANGED notShot
  \/ \E c \in ShotConns : ShotWrite(c) /\ UNCHANGED notShot
  \/ \E c \in ShotConns : ShotCountRead(c) /\ UNCHANGED notShot
  \/ \E c \in ShotConns : ShotCountWrite(c) /\ UNCHANGED notShot
  \/ \E c \in ShotConns : ShotFinally(c) /\ UNCHANGED notShot
  \/ \E c \in ShotConns : ShotDeregister(c) /\ UNCHANGED notShot

SpecPath == InitPath /\ [][PathNext]_vars

\* a constructed LogServer, with or without --output and rotation (quiet when
\* there is an output file, so that the terminal stays out of the way), and the
\* clients that will connect
InitLog ==
  /\ output_file \in BOOLEAN
  /\ rotate_minutes \in { 0, 1 }
  /\ quiet = output_file
  /\ console = { }
  /\ running = FALSE
  /\ server_socket = "none"
  /\ ls_main = "init"
  /\ ls_pending = "none"
  /\ clients = { }
  /\ lock = "free"
  /\ out_file = NoFile
  /\ open_handles = { }
  /\ current_log_path = NoFile
  /\ fs = << >>
  /\ link_failed = FALSE
  /\ rotation_timer = "none"
  /\ ls_rot = "idle"
  /\ now = 1
  /\ rotations = 0
  /\ ls_shutdown = "idle"
  /\ ls_sock = [c \in LogConns |-> "none"]
  /\ ls_peer = [c \in LogConns |-> "open"]
  /\ ls_pc = [c \in LogConns |-> "none"]
  /\ ls_sent = [c \in LogConns |-> 0]
  /\ ls_buf = [c \in LogConns |-> << >>]
  /\ ls_cur = [c \in LogConns |-> 0]
  /\ ls_handle = [c \in LogConns |-> NoFile]
  /\ message = << >>
  /\ formatted = FALSE
  /\ result = NoResult
  /\ stream = << >>
  /\ delivered = 0
  /\ buffer = << >>
  /\ lines = << >>
  /\ closed = TRUE
  /\ ss_server = "none"
  /\ ss_running = FALSE
  /\ ss_accept = "exited"
  /\ ss_shutdown = "idle"
  /\ ss_clients = { }
  /\ screenshot_count = 0
  /\ ss_files = << >>
  /\ ss_frame = [c \in ShotConns |-> [ts |-> << >>, img_len |-> 0]]
  /\ ss_wire = [c \in ShotConns |-> << >>]
  /\ ss_peer = [c \in ShotConns |-> "open"]
  /\ ss_sock = [c \in ShotConns |-> "none"]
  /\ ss_pc = [c \in ShotConns |-> "idle"]
  /\ ss_need = [c \in ShotConns |-> 0]
  /\ ss_timed_out = [c \in ShotConns |-> FALSE]
  /\ ss_data = [c \in ShotConns |-> << >>]
  /\ ss_timestamp = [c \in ShotConns |-> << >>]
  /\ ss_img_data = [c \in ShotConns |-> << >>]
  /\ ss_count_read = [c \in ShotConns |-> 0]
  /\ ss_saves = { }

notLog == << parseVars, splitVars, shotVars >>

LogNext ==
  \/ LogRun /\ UNCHANGED notLog
  \/ LogBindFails /\ UNCHANGED notLog
  \/ LogOpenFirst /\ UNCHANGED notLog
  \/ LogUnlinkFirst /\ UNCHANGED notLog
  \/ LogSymlinkFirst /\ UNCHANGED notLog
  \/ LogScheduleFirst /\ UNCHANGED notLog
  \/ LogLoopCheck /\ UNCHANGED notLog
  \/ LogAcceptTimeout /\ UNCHANGED notLog
  \/ LogRegisterLock /\ UNCHANGED notLog
  \/ LogRegister /\ UNCHANGED notLog
  \/ LogTimerFires /\ UNCHANGED notLog
  \/ LogRotateCheck /\ UNCHANGED notLog
  \/ LogRotateLock /\ UNCHANGED notLog
  \/ LogRotateClose /\ UNCHANGED notLog
  \/ LogRotateOpen /\ UNCHANGED notLog
  \/ LogRotateUnlink /\ UNCHANGED notLog
  \/ LogRotateSymlink /\ UNCHANGED notLog
  \/ LogRotateRelease /\ UNCHANGED notLog
  \/ LogRotateSchedule /\ UNCHANGED notLog
  \/ LogShutdownFlag /\ UNCHANGED notLog
  \/ LogShutdownCancel /\ UNCHANGED notLog
  \/ LogShutdownClients /\ UNCHANGED notLog
  \/ LogShutdownServer /\ UNCHANGED notLog
  \/ LogShutdownFile /\ UNCHANGED notLog
  \/ SignalExit /\ UNCHANGED notLog
  \/ \E c \in LogConns : LogAccept(c) /\ UNCHANGED notLog
  \/ \E c \in LogConns : LogPeerClose(c) /\ UNCHANGED notLog
  \/ \E c \in LogConns : LogLoop(c) /\ UNCHANGED notLog
  \/ \E c \in LogConns : LogRecvTimeout(c) /\ UNCHANGED notLog
  \/ \E c \in LogConns : LogRecvEof(c) /\ UNCHANGED notLog
  \/ \E c \in LogConns : LogRecvError(c) /\ UNCHANGED notLog
  \/ \E c \in LogConns : LogTakeLine(c) /\ UNCHANGED notLog
  \/ \E c \in LogConns : LogWriteLock(c) /\ UNCHANGED notLog
  \/ \E c \in LogConns : LogWriteBegin(c) /\ UNCHANGED notLog
  \/ \E c \in LogConns : LogWriteEnd(c) /\ UNCHANGED notLog
  \/ \E c \in LogConns : LogFlush(c) /\ UNCHANGED notLog
  \/ \E c \in LogConns : LogFinally(c) /\ UNCHANGED notLog
  \/ \E c \in LogConns : LogDeregister(c) /\ UNCHANGED notLog
  \/ \E c \in LogConns : \E j \in 1..MaxLines : LogRecvLines(c, j) /\ UNCHANGED notLog

SpecLog == InitLog /\ [][LogNext]_vars

\* the scheduler lets every thread that can take a step take one: the
\* signal handler, the handlers of the connections and the timer thread, and
\* the main thread where it holds the lock.  What the clients, the clock and
\* the signal do is left open.
LogFairness ==
  /\ WF_vars(LogRegister /\ UNCHANGED notLog)
  /\ WF_vars(LogShutdownCancel /\ UNCHANGED notLog)
  /\ WF_vars(LogShutdownClients /\ UNCHANGED notLog)
  /\ WF_vars(LogShutdownServer /\ UNCHANGED notLog)
  /\ WF_vars(LogShutdownFile /\ UNCHANGED notLog)
  /\ WF_vars(SignalExit /\ UNCHANGED notLog)
  /\ WF_vars(LogRotateCheck /\ UNCHANGED notLog)
  /\ WF_vars(LogRotateLock /\ UNCHANGED notLog)
  /\ WF_vars(LogRotateClose /\ UNCHANGED notLog)
  /\ WF_vars(LogRotateOpen /\ UNCHANGED notLog)
  /\ WF_vars(LogRotateUnlink /\ UNCHANGED notLog)
  /\ WF_vars(LogRotateSymlink /\ UNCHANGED notLog)
  /\ WF_vars(LogRotateRelease /\ UNCHANGED notLog)
  /\ WF_vars(LogRotateSchedule /\ UNCHANGED notLog)
  /\ \A c \in LogConns :
       /\ WF_vars(LogLoop(c) /\ UNCHANGED notLog)
       /\ WF_vars(LogRecvEof(c) /\ UNCHANGED notLog)
       /\ WF_vars(LogRecvError(c) /\ UNCHANGED notLog)
       /\ WF_vars(LogTakeLine(c) /\ UNCHANGED notLog)
       /\ WF_vars(LogWriteLock(c) /\ UNCHANGED notLog)
       /\ WF_vars(LogWriteBegin(c) /\ UNCHANGED notLog)
       /\ WF_vars(LogWriteEnd(c) /\ UNCHANGED notLog)
       /\ WF_vars(LogFlush(c) /\ UNCHANGED notLog)
       /\ WF_vars(LogFinally(c) /\ UNCHANGED notLog)
       /\ WF_vars(LogDeregister(c) /\ UNCHANGED notLog)

SpecLogFair == InitLog /\ [][LogNext]_vars /\ LogFairness


\* a LogServer as main() builds it, with the terminal output on or off (off
\* only with --output, lines 493-495), while no signal arrives
InitEcho ==
  /\ output_file \in BOOLEAN
  /\ rotate_minutes \in { 0, 1 }
  /\ quiet \in BOOLEAN
  /\ quiet => output_file
  /\ console = { }
  /\ running = FALSE
  /\ server_socket = "none"
  /\ ls_main = "init"
  /\ ls_pending = "none"
  /\ clients = { }
  /\ lock = "free"
  /\ out_file = NoFile
  /\ open_handles = { }
  /\ current_log_path = NoFile
  /\ fs = << >>
  /\ link_failed = FALSE
  /\ rotation_timer = "none"
  /\ ls_rot = "idle"
  /\ now = 1
  /\ rotations = 0
  /\ ls_shutdown = "idle"
  /\ ls_sock = [c \in LogConns |-> "none"]
  /\ ls_peer = [c \in LogConns |-> "open"]
  /\ ls_pc = [c \in LogConns |-> "none"]
  /\ ls_sent = [c \in LogConns |-> 0]
  /\ ls_buf = [c \in LogConns |-> << >>]
  /\ ls_cur = [c \in LogConns |-> 0]
  /\ ls_handle = [c \in LogConns |-> NoFile]
  /\ message = << >>
  /\ formatted = FALSE
  /\ result = NoResult
  /\ stream = << >>
  /\ delivered = 0
  /\ buffer = << >>
  /\ lines = << >>
  /\ closed = TRUE
  /\ ss_server = "none"
  /\ ss_running = FALSE
  /\ ss_accept = "exited"
  /\ ss_shutdown = "idle"
  /\ ss_clients = { }
  /\ screenshot_count = 0
  /\ ss_files = << >>
  /\ ss_frame = [c \in ShotConns |-> [ts |-> << >>, img_len |-> 0]]
  /\ ss_wire = [c \in ShotConns |-> << >>]
  /\ ss_peer = [c \in ShotConns |-> "open"]
  /\ ss_sock = [c \in ShotConns |-> "none"]
  /\ ss_pc = [c \in ShotConns |-> "idle"]
  /\ ss_need = [c \in ShotConns |-> 0]
  /\ ss_timed_out = [c \in ShotConns |-> FALSE]
  /\ ss_data = [c \in ShotConns |-> << >>]
  /\ ss_timestamp = [c \in ShotConns |-> << >>]
  /\ ss_img_data = [c \in ShotConns |-> << >>]
  /\ ss_count_read = [c \in ShotConns |-> 0]
  /\ ss_saves = { }

EchoNext ==
  \/ LogRun /\ UNCHANGED notLog
  \/ LogBindFails /\ UNCHANGED notLog
  \/ LogOpenFirst /\ UNCHANGED notLog
  \/ LogUnlinkFirst /\ UNCHANGED notLog
  \/ LogSymlinkFirst /\ UNCHANGED notLog
  \/ LogScheduleFirst /\ UNCHANGED notLog
  \/ LogLoopCheck /\ UNCHANGED notLog
  \/ LogAcceptTimeout /\ UNCHANGED notLog
  \/ LogRegisterLock /\ UNCHANGED notLog
  \/ LogRegister /\ UNCHANGED notLog
  \/ LogTimerFires /\ UNCHANGED notLog
  \/ LogRotateCheck /\ UNCHANGED notLog
  \/ LogRotateLock /\ UNCHANGED notLog
  \/ LogRotateClose /\ UNCHANGED notLog
  \/ LogRotateOpen /\ UNCHANGED notLog
  \/ LogRotateUnlink /\ UNCHANGED notLog
  \/ LogRotateSymlink /\ UNCHANGED notLog
  \/ LogRotateRelease /\ UNCHANGED notLog
  \/ LogRotateSchedule /\ UNCHANGED notLog
  \/ \E c \in LogConns : LogAccept(c) /\ UNCHANGED notLog
  \/ \E c \in LogConns : LogPeerClose(c) /\ UNCHANGED notLog
  \/ \E c \in LogConns : LogLoop(c) /\ UNCHANGED notLog
  \/ \E c \in LogConns : LogRecvTimeout(c) /\ UNCHANGED notLog
  \/ \E c \in LogConns : LogRecvEof(c) /\ UNCHANGED notLog
  \/ \E c \in LogConns : LogTakeLine(c) /\ UNCHANGED notLog
  \/ \E c \in LogConns : LogWriteLock(c) /\ UNCHANGED notLog
  \/ \E c \in LogConns : LogWriteBegin(c) /\ UNCHANGED notLog
  \/ \E c \in LogConns : LogWriteEnd(c) /\ UNCHANGED notLog
  \/ \E c \in LogConns : LogFlush(c) /\ UNCHANGED notLog
  \/ \E c \in LogConns : LogFinally(c) /\ UNCHANGED notLog
  \/ \E c \in LogConns : LogDeregister(c) /\ UNCHANGED notLog
  \/ \E c \in LogConns : \E j \in 1..MaxLines : LogRecvLines(c, j) /\ UNCHANGED notLog

SpecEcho == InitEcho /\ [][EchoNext]_vars

(***************************************************************************)
(* The log server with rotation on and one client, while no signal         *)
(* arrives.  The configured path is free at startup or names a log file    *)
(* that an earlier run without rotation has left there.                    *)
(***************************************************************************)

InitRot ==
  /\ output_file = TRUE
  /\ rotate_minutes = 1
  /\ quiet = TRUE
  /\ console = { }
  /\ running = FALSE
  /\ server_socket = "none"
  /\ ls_main = "init"
  /\ ls_pending = "none"
  /\ clients = { }
  /\ lock = "free"
  /\ out_file = NoFile
  /\ open_handles = { }
  /\ current_log_path = NoFile
  /\ fs \in { << >>, [q \in { BasePath } |-> RegularFile(OldLog)] }
  /\ link_failed = FALSE
  /\ rotation_timer = "none"
  /\ ls_rot = "idle"
  /\ now = 1
  /\ rotations = 0
  /\ ls_shutdown = "idle"
  /\ ls_sock = [c \in LogConns |-> "none"]
  /\ ls_peer = [c \in LogConns |-> "open"]
  /\ ls_pc = [c \in LogConns |-> "none"]
  /\ ls_sent = [c \in LogConns |-> 0]
  /\ ls_buf = [c \in LogConns |-> << >>]
  /\ ls_cur = [c \in LogConns |-> 0]
  /\ ls_handle = [c \in LogConns |-> NoFile]
  /\ message = << >>
  /\ formatted = FALSE
  /\ result = NoResult
  /\ stream = << >>
  /\ delivered = 0
  /\ buffer = << >>
  /\ lines = << >>
  /\ closed = TRUE
  /\ ss_server = "none"
  /\ ss_running = FALSE
  /\ ss_accept = "exited"
  /\ ss_shutdown = "idle"
  /\ ss_clients = { }
  /\ screenshot_count = 0
  /\ ss_files = << >>
  /\ ss_frame = [c \in ShotConns |-> [ts |-> << >>, img_len |-> 0]]
  /\ ss_wire = [c \in ShotConns |-> << >>]
  /\ ss_peer = [c \in ShotConns |-> "open"]
  /\ ss_sock = [c \in ShotConns |-> "none"]
  /\ ss_pc = [c \in ShotConns |-> "idle"]
  /\ ss_need = [c \in ShotConns |-> 0]
  /\ ss_timed_out = [c \in ShotConns |-> FALSE]
  /\ ss_data = [c \in ShotConns |-> << >>]
  /\ ss_timestamp = [c \in ShotConns |-> << >>]
  /\ ss_img_data = [c \in ShotConns |-> << >>]
  /\ ss_count_read = [c \in ShotConns |-> 0]
  /\ ss_saves = { }

RotNext ==
  \/ LogRun /\ UNCHANGED notLog
  \/ LogOpenFirst /\ UNCHANGED notLog
  \/ LogUnlinkFirst /\ UNCHANGED notLog
  \/ LogSymlinkFirst /\ UNCHANGED notLog
  \/ LogScheduleFirst /\ UNCHANGED notLog
  \/ LogLoopCheck /\ UNCHANGED notLog
  \/ LogAcceptTimeout /\ UNCHANGED notLog
  \/ LogRegisterLock /\ UNCHANGED notLog
  \/ LogRegister /\ UNCHANGED notLog
  \/ TimerFires(MaxTicks) /\ UNCHANGED notLog
  \/ LogRotateCheck /\ UNCHANGED notLog
  \/ LogRotateLock /\ UNCHANGED notLog
  \/ LogRotateClose /\ UNCHANGED notLog
  \/ LogRotateOpen /\ UNCHANGED notLog
  \/ LogRotateUnlink /\ UNCHANGED notLog
  \/ LogRotateSymlink /\ UNCHANGED notLog
  \/ LogRotateRelease /\ UNCHANGED notLog
  \/ LogRotateSchedule /\ UNCHANGED notLog
  \/ LogAccept("l1") /\ UNCHANGED notLog
  \/ LogPeerClose("l1") /\ UNCHANGED notLog
  \/ LogLoop("l1") /\ UNCHANGED notLog
  \/ LogRecvTimeout("l1") /\ UNCHANGED notLog
  \/ LogRecvEof("l1") /\ UNCHANGED notLog
  \/ LogTakeLine("l1") /\ UNCHANGED notLog
  \/ LogWriteLock("l1") /\ UNCHANGED notLog
  \/ LogWriteBegin("l1") /\ UNCHANGED notLog
  \/ LogWriteEnd("l1") /\ UNCHANGED notLog
  \/ LogFlush("l1") /\ UNCHANGED notLog
  \/ LogFinally("l1") /\ UNCHANGED notLog
  \/ LogDeregister("l1") /\ UNCHANGED notLog
  \/ \E j \in 1..MaxLines : LogRecvLines("l1", j) /\ UNCHANGED notLog

SpecRot == InitRot /\ [][RotNext]_vars

\* the threads take their steps as in LogFairness, and a timer that is
\* pending expires
RotFairness ==
  /\ LogFairness
  /\ WF_vars(TimerFires(MaxTicks) /\ UNCHANGED notLog)

SpecRotFair == InitRot /\ [][RotNext]_vars /\ RotFairness


\* main(): the screenshot thread has been started and the main thread is
\* about to call log_server.run(); no --output, one screenshot client with one
\* frame to send, and no signal arrives
InitMain ==
  /\ output_file = FALSE
  /\ rotate_minutes = 0
  /\ quiet = FALSE
  /\ console = { }
  /\ running = FALSE
  /\ server_socket = "none"
  /\ ls_main = "init"
  /\ ls_pending = "none"
  /\ clients = { }
  /\ lock = "free"
  /\ out_file = NoFile
  /\ open_handles = { }
  /\ current_log_path = NoFile
  /\ fs = << >>
  /\ link_failed = FALSE
  /\ rotation_timer = "none"
  /\ ls_rot = "idle"
  /\ now = 1
  /\ rotations = 0
  /\ ls_shutdown = "idle"
  /\ ls_sock = [c \in LogConns |-> "none"]
  /\ ls_peer = [c \in LogConns |-> "open"]
  /\ ls_pc = [c \in LogConns |-> "none"]
  /\ ls_sent = [c \in LogConns |-> 0]
  /\ ls_buf = [c \in LogConns |-> << >>]
  /\ ls_cur = [c \in LogConns |-> 0]
  /\ ls_handle = [c \in LogConns |-> NoFile]
  /\ message = << >>
  /\ formatted = FALSE
  /\ result = NoResult
  /\ stream = << >>
  /\ delivered = 0
  /\ buffer = << >>
  /\ lines = << >>
  /\ closed = TRUE
  /\ ss_server = "none"
  /\ ss_running = FALSE
  /\ ss_accept = "check"
  /\ ss_shutdown = "idle"
  /\ ss_clients = { }
  /\ screenshot_count = 0
  /\ ss_files = << >>
  /\ ss_frame = [c \in ShotConns |->
                   IF c = "s1" THEN [ts |-> << "1", ":" >>, img_len |-> 1]
                   ELSE [ts |-> << >>, img_len |-> 0]]
  /\ ss_wire = [c \in ShotConns |-> WireOf(c, ss_frame[c])]
  /\ ss_peer = [c \in ShotConns |-> IF c = "s1" THEN "open" ELSE "absent"]
  /\ ss_sock = [c \in ShotConns |-> "none"]
  /\ ss_pc = [c \in ShotConns |-> "idle"]
  /\ ss_need = [c \in ShotConns |-> 0]
  /\ ss_timed_out = [c \in ShotConns |-> FALSE]
  /\ ss_data = [c \in ShotConns |-> << >>]
  /\ ss_timestamp = [c \in ShotConns |-> << >>]
  /\ ss_img_data = [c \in ShotConns |-> << >>]
  /\ ss_count_read = [c \in ShotConns |-> 0]
  /\ ss_saves = { }

\* the steps of the two listeners while the process lives; a step of the log
\* listener leaves the screenshot listener alone and the other way round
MainNext ==
  \/ LogRun /\ UNCHANGED notLog
  \/ LogBindFails /\ UNCHANGED notLog
  \/ LogOpenFirst /\ UNCHANGED notLog
  \/ LogScheduleFirst /\ UNCHANGED notLog
  \/ LogLoopCheck /\ UNCHANGED notLog
  \/ LogAcceptTimeout /\ UNCHANGED notLog
  \/ LogRegisterLock /\ UNCHANGED notLog
  \/ LogRegister /\ UNCHANGED notLog
  \/ \E c \in LogConns : LogAccept(c) /\ UNCHANGED notLog
  \/ ProcessLives /\ ScreenshotRun /\ UNCHANGED notShot
  \/ ProcessLives /\ ScreenshotStart /\ UNCHANGED notShot
  \/ ProcessLives /\ ScreenshotBindFails /\ UNCHANGED notShot
  \/ ProcessLives /\ ScreenshotLoopCheck /\ UNCHANGED notShot
  \/ ProcessLives /\ ScreenshotAcceptFails /\ UNCHANGED notShot
  \/ \E c \in ShotConns : ProcessLives /\ ScreenshotAccept(c) /\ UNCHANGED notShot
  \/ \E c \in ShotConns : ProcessLives /\ ShotLoop(c) /\ UNCHANGED notShot
  \/ \E c \in ShotConns : ProcessLives /\ ShotRecv(c) /\ UNCHANGED notShot
  \/ \E c \in ShotConns : ProcessLives /\ ShotRecvTimeout(c) /\ UNCHANGED notShot
  \/ \E c \in ShotConns : ProcessLives /\ ShotOpen(c) /\ UNCHANGED notShot
  \/ \E c \in ShotConns : ProcessLives /\ ShotWrite(c) /\ UNCHANGED notShot
  \/ \E c \in ShotConns : ProcessLives /\ ShotCountRead(c) /\ UNCHANGED notShot
  \/ \E c \in ShotConns : ProcessLives /\ ShotCountWrite(c) /\ UNCHANGED notShot

SpecMain == InitMain /\ [][MainNext]_vars

=============================================================================
